---------------------------- MODULE Spec2Model ----------------------------
(***************************************************************************)
(* concurrent_qs: single-producer/single-consumer channels.                *)
(*                                                                         *)
(*   - spsc::bounded   : ring buffer with cached cursors (prefix b_)       *)
(*   - spsc::unbounded : linked queue with node recycling (prefix u_)      *)
(*   - util::park      : the Parker embedded in both channels              *)
(*                                                                         *)
(* Every shared-memory access of the code is one step of the thread that   *)
(* performs it; accesses to fields only the stepping thread ever touches   *)
(* are folded into the neighbouring step.  Memory is sequentially          *)
(* consistent.  Values sent are numbered 1, 2, 3, ... in the order the     *)
(* producer offers them, so loss, duplication and reordering are visible.  *)
(***************************************************************************)
EXTENDS Integers, Sequences, FiniteSets

(* ------------------------------ bounds -------------------------------- *)

\* width in bits of the index type (usize) of the bounded channel's cursors
IndexBits == 3
\* number of values the producer of the bounded channel offers
MaxSendBounded == 9
\* number of values the producer of the unbounded channel offers
MaxSendUnbounded == 4
MaxRounds == 12

\* calls of receiver_connected / sender_connected made on each endpoint
MaxConnCalls == 3

\* calls of park and calls of unpark made on the stand-alone Parker
MaxParkCalls == 3

\* values pushed onto the legacy Queue (more than 2^IndexBits, so that its
\* cursors overflow)
MaxPush == 9

Modulus == 2 ^ IndexBits

(* --------------------------- integer helpers -------------------------- *)

\* mutant: the addition saturates at usize::MAX instead of wrapping
wrapping_add_Saturating(a, b) == IF a + b > Modulus - 1 THEN Modulus - 1 ELSE a + b

\* usize::wrapping_add
wrapping_add(a, b) == (a + b) % Modulus

RECURSIVE BitAnd(_, _)
BitAnd(a, b) ==
    IF a = 0 \/ b = 0 THEN 0
    ELSE (IF a % 2 = 1 /\ b % 2 = 1 THEN 1 ELSE 0) + 2 * BitAnd(a \div 2, b \div 2)

is_power_of_two(n) == \E k \in 0..IndexBits : n = 2 ^ k

\* number of significant bits of n (the index width less usize::leading_zeros)
RECURSIVE BitLength(_)
BitLength(n) == IF n = 0 THEN 0 ELSE 1 + BitLength(n \div 2)

\* mutant: an overflowing request is clamped to the largest power of two
checked_next_power_of_two_Saturating(n) ==
    LET one_less == IF n <= 1 THEN 0 ELSE 2 ^ BitLength(n - 1) - 1
    IN  IF one_less + 1 > Modulus - 1 THEN Modulus \div 2 ELSE one_less + 1

\* mutant: the mask is taken from n instead of n - 1 (next power above n)
checked_next_power_of_two_Above(n) ==
    LET one_less == IF n = 0 THEN 0 ELSE 2 ^ BitLength(n) - 1
    IN  IF one_less + 1 > Modulus - 1 THEN 0 ELSE one_less + 1

\* usize::checked_next_power_of_two, as core computes it: all ones below the
\* top bit of n - 1 (usize::MAX >> leading_zeros(n - 1)), checked_add(1);
\* 0 stands for None (overflow)
checked_next_power_of_two(n) ==
    LET one_less == IF n <= 1 THEN 0 ELSE 2 ^ BitLength(n - 1) - 1
    IN  IF one_less + 1 > Modulus - 1 THEN 0 ELSE one_less + 1

(* ------------------------------- Parker ------------------------------- *)

NOTIFIED == 0
EMPTY == 1
PARKED == 2

\* Parker::new
ParkerNew == [state |-> EMPTY, locked |-> FALSE]

ParkPCs == {"pk_fetch_add", "pk_lock", "pk_cas", "pk_wait"}
UnparkPCs == {"up_swap", "up_lock", "up_notify"}

\* mutant: the fast path returns without consuming the notification
Park_KeepsNotification(pk) ==
    [pk |-> IF pk.state = NOTIFIED THEN pk ELSE [pk EXCEPT !.state = pk.state + 1],
     pc |-> IF pk.state = NOTIFIED THEN "pk_return"
            ELSE IF pk.state = EMPTY THEN "pk_lock"
            ELSE "pk_panic"]

\* mutant: park takes the slow path even when a notification is pending
Park_AlwaysSlow(pk) ==
    [pk |-> [pk EXCEPT !.state = pk.state + 1],
     pc |-> IF pk.state \in {NOTIFIED, EMPTY} THEN "pk_lock" ELSE "pk_panic"]

\* Parker::park: state.fetch_add(1) and the match on the previous value
Park(pk) ==
    [pk |-> [pk EXCEPT !.state = pk.state + 1],
     pc |-> IF pk.state = NOTIFIED THEN "pk_return"
            ELSE IF pk.state = EMPTY THEN "pk_lock"
            ELSE "pk_panic"]

\* Parker::park_slow: self.mutex.lock() (also the re-lock when wait returns)
ParkSlowLock(pk) == [pk |-> [pk EXCEPT !.locked = TRUE], pc |-> "pk_cas"]

\* mutant: park_slow returns after any wake-up, whatever the state
ParkSlowCas_ReturnsOnWake(pk) ==
    [pk |-> [state |-> EMPTY, locked |-> FALSE], pc |-> "pk_return"]

\* Parker::park_slow: compare_exchange(NOTIFIED, EMPTY); success returns and
\* releases the guard
ParkSlowCas(pk) ==
    IF pk.state = NOTIFIED
    THEN [pk |-> [state |-> EMPTY, locked |-> FALSE], pc |-> "pk_return"]
    ELSE [pk |-> pk, pc |-> "pk_wait"]

\* Parker::park_slow: condvar.wait(m) releases the mutex and sleeps
ParkSlowWait(pk) == [pk |-> [pk EXCEPT !.locked = FALSE], pc |-> "pk_sleeping"]

ParkEnabled(pk, pc) ==
    /\ pc \in ParkPCs
    /\ pc = "pk_lock" => ~pk.locked

ParkStep(pk, pc) ==
    CASE pc = "pk_fetch_add" -> Park(pk)
      [] pc = "pk_lock" -> ParkSlowLock(pk)
      [] pc = "pk_cas" -> ParkSlowCas(pk)
      [] pc = "pk_wait" -> ParkSlowWait(pk)

\* mutant: unpark decrements the state instead of swapping in NOTIFIED
Unpark_FetchSub(pk) ==
    [pk |-> [pk EXCEPT !.state = pk.state - 1],
     pc |-> IF pk.state = PARKED THEN "up_lock" ELSE "up_return"]

\* mutant: unpark takes the mutex and notifies whatever the previous state
Unpark_AlwaysLocks(pk) ==
    [pk |-> [pk EXCEPT !.state = NOTIFIED], pc |-> "up_lock"]

\* Parker::unpark: state.swap(NOTIFIED) and the test of the previous value
Unpark(pk) ==
    [pk |-> [pk EXCEPT !.state = NOTIFIED],
     pc |-> IF pk.state = PARKED THEN "up_lock" ELSE "up_return"]

\* Parker::unpark: drop(self.mutex.lock())
UnparkLock(pk) == [pk |-> pk, pc |-> "up_notify"]

\* mutant: notify_one wakes nobody
NotifyOne_Lost(peer_pc) == peer_pc

\* Parker::unpark: condvar.notify_one(), seen from the parked thread's pc
NotifyOne(peer_pc) == IF peer_pc = "pk_sleeping" THEN "pk_lock" ELSE peer_pc

\* mutant: unpark notifies without first taking the Parker's mutex
UnparkEnabled_NoLock(pk, pc) == pc \in UnparkPCs

\* Parker::unpark can take its next step (mutex.lock() needs the mutex free)
UnparkEnabled(pk, pc) ==
    /\ pc \in UnparkPCs
    /\ pc = "up_lock" => ~pk.locked

UnparkStep(pk, pc) ==
    CASE pc = "up_swap" -> Unpark(pk)
      [] pc = "up_lock" -> UnparkLock(pk)
      [] pc = "up_notify" -> [pk |-> pk, pc |-> "up_return"]

(* ========================= spsc::bounded: state ======================= *)

VARIABLES
    b_min_capacity,  \* argument of channel()
    b_cap,           \* shared.buffer.len(); 0 when channel() panicked
    b_buffer,        \* shared.buffer: slot index -> value bits (0: never written)
    b_tail,          \* sender.tail
    b_head_cache,    \* sender.head_cache
    b_recv_park,     \* sender.recv_park
    b_head,          \* receiver.head
    b_tail_cache,    \* receiver.tail_cache
    b_send_park,     \* receiver.send_park
    b_drop_count,    \* shared.drop_count
    b_freed,         \* number of times the Inner block was deallocated
    b_spc,           \* producer thread: position
    b_sop,           \* producer thread: public method being executed
    b_sitem,         \* producer thread: the item passed in / carried back
    b_sres,          \* producer thread: result of the last try_send / send
    b_rpc,           \* consumer thread: position
    b_rop,           \* consumer thread: public method being executed
    b_ritem,         \* consumer thread: the item read from the slot
    b_rres,          \* consumer thread: result of the last try_recv / recv
    b_sent,          \* history: values accepted by try_send, in order
    b_received,      \* history: values handed out by try_recv, in order
    b_dropped        \* history: values destroyed by Inner::drop, in order

bvars == <<b_min_capacity, b_cap, b_buffer, b_tail, b_head_cache, b_recv_park,
           b_head, b_tail_cache, b_send_park, b_drop_count, b_freed,
           b_spc, b_sop, b_sitem, b_sres, b_rpc, b_rop, b_ritem, b_rres,
           b_sent, b_received, b_dropped>>

(* ======================== spsc::unbounded: state ====================== *)

VARIABLES
    u_next,           \* Node.next of every node (0: null)
    u_value,          \* Node.value of every node: value bits (0: never written)
    u_created,        \* number of Node::create calls; nodes are 1..u_created
    u_released,       \* history: nodes passed to Node::release, in order
    u_head,           \* sender.head
    u_next_for_reuse, \* sender.next_for_reuse
    u_tail_cache,     \* sender.tail_cache
    u_park,           \* sender.park_receiver
    u_tail,           \* tail
    u_drop_count,     \* drop_count
    u_freed,          \* number of times the Inner block was deallocated
    u_spc,            \* producer thread: position
    u_sop,            \* producer thread: "send" or "drop"
    u_sitem,          \* producer thread: the item passed to send
    u_snode,          \* producer thread: the node obtained from next_node
    u_sres,           \* producer thread: result of the last send
    u_rpc,            \* consumer thread: position
    u_rop,            \* consumer thread: "try_recv" or "recv"
    u_rnew,           \* consumer thread: new_tail
    u_ritem,          \* consumer thread: the value read out of new_tail
    u_rres,           \* consumer thread: result of the last try_recv / recv
    u_sent,           \* history: values linked into the chain by send, in order
    u_received,       \* history: values handed out by try_recv, in order
    u_dropped         \* history: values destroyed by Inner::drop, in order

uvars == <<u_next, u_value, u_created, u_released, u_head, u_next_for_reuse,
           u_tail_cache, u_park, u_tail, u_drop_count, u_freed,
           u_spc, u_sop, u_sitem, u_snode, u_sres,
           u_rpc, u_rop, u_rnew, u_ritem, u_rres,
           u_sent, u_received, u_dropped>>

(* ================= receiver_connected / sender_connected ============== *)

VARIABLES
    b_sconn,  \* history: values returned by bounded Sender::receiver_connected
    b_rconn,  \* history: values returned by bounded Receiver::sender_connected
    u_sconn,  \* history: values returned by unbounded Sender::receiver_connected
    u_rconn   \* history: values returned by unbounded Receiver::sender_connected

conn_obs == <<b_sconn, b_rconn, u_sconn, u_rconn>>

(* ===================== util::park: a Parker on its own ================ *)

VARIABLES
    p_pk,       \* the Parker: state and whether its mutex is held
    p_ppc,      \* the thread that parks: position
    p_upc,      \* the thread that unparks: position
    p_upc2,     \* a second thread that unparks: position
    p_parks,    \* number of park() calls made
    p_unparks,  \* number of unpark() calls made
    p_pending,  \* history: an unpark swapped the state since park last returned
    p_swaps,    \* history: number of such swaps
    p_woken,    \* history: the park in progress came back from condvar.wait
    p_last      \* history: the last park that returned (swaps consumed, path)

p_hist == <<p_swaps, p_woken, p_last>>

pvars == <<p_pk, p_ppc, p_upc, p_upc2, p_parks, p_unparks, p_pending, p_hist>>

(* ========================= spsc::Queue<T, N> ========================== *)

VARIABLES
    q_N,           \* the const generic N
    q_elems,       \* elems: slot -> value, 0 is uninitialised or moved out
    q_head,        \* reader.head
    q_tail_cache,  \* reader.tail_cache
    q_tail,        \* writer.tail
    q_head_cache,  \* writer.head_cache
    q_ppc,         \* pushing thread: position
    q_pitem,       \* pushing thread: the item of the call
    q_pres,        \* pushing thread: result of the last push
    q_cpc,         \* popping thread: position
    q_citem,       \* popping thread: the item read from the slot
    q_cres,        \* popping thread: result of the last pop
    q_pushed,      \* history: values accepted by push, in order
    q_popped       \* history: values returned by pop, in order

qvars == <<q_N, q_elems, q_head, q_tail_cache, q_tail, q_head_cache,
           q_ppc, q_pitem, q_pres, q_cpc, q_citem, q_cres, q_pushed, q_popped>>

\* the state of the components that are used on their own
standalone == <<pvars, qvars>>

\* the state outside the bounded channel / outside the unbounded channel
not_bounded == <<uvars, conn_obs, standalone>>
not_unbounded == <<bvars, conn_obs, standalone>>

vars == <<bvars, uvars, conn_obs, standalone>>

(* ===================== spsc::bounded: operations ====================== *)

b_shared == <<b_min_capacity, b_cap, b_drop_count, b_freed>>
b_sender_side == <<b_tail, b_head_cache>>
b_receiver_side == <<b_head, b_tail_cache>>
b_hist == <<b_sent, b_received, b_dropped>>

NoResult == [kind |-> "None", item |-> 0]

\* channel(min_capacity) and Inner::new
BoundedChannel(min_capacity) ==
    LET capacity == checked_next_power_of_two(min_capacity)
    IN  /\ b_min_capacity = min_capacity
        /\ b_cap = capacity
        /\ b_buffer = [i \in 0..(capacity - 1) |-> 0]
        /\ b_tail = 0 /\ b_head_cache = 0 /\ b_recv_park = ParkerNew
        /\ b_head = 0 /\ b_tail_cache = 0 /\ b_send_park = ParkerNew
        /\ b_drop_count = 0
        /\ b_freed = 0
        /\ b_spc = IF capacity = 0 THEN "panic" ELSE "idle"
        /\ b_rpc = IF capacity = 0 THEN "panic" ELSE "idle"

BoundedInit ==
    /\ \E min_capacity \in 0..(Modulus - 1) : BoundedChannel(min_capacity)
    /\ b_sop = "none" /\ b_sitem = 0 /\ b_sres = NoResult
    /\ b_rop = "none" /\ b_ritem = 0 /\ b_rres = NoResult
    /\ b_sent = <<>> /\ b_received = <<>> /\ b_dropped = <<>>

(* ---- Inner::drop: destroy the values between head and tail ---- *)

RECURSIVE InnerDropLoop(_, _, _, _)
InnerDropLoop(head, tail, mask, fuel) ==
    IF head = tail \/ fuel = 0 THEN <<>>
    ELSE <<b_buffer[BitAnd(head, mask)]>>
         \o InnerDropLoop(wrapping_add(head, 1), tail, mask, fuel - 1)

\* mutant: Inner::drop walks the ring from its first slot
BoundedInnerDrop_FromZero == InnerDropLoop(0, b_tail, b_cap - 1, Modulus)

BoundedInnerDrop == InnerDropLoop(b_head, b_tail, b_cap - 1, Modulus)

(* ---- producer thread ---- *)

\* Sender::try_send / Sender::send is called with the next value
B_SenderCall ==
    /\ b_spc = "idle"
    /\ Len(b_sent) < MaxSendBounded
    /\ \E op \in {"try_send", "send"} : b_sop' = op
    /\ b_sitem' = Len(b_sent) + 1
    /\ b_sres' = NoResult
    /\ b_spc' = "ts_check"
    /\ UNCHANGED <<not_bounded, b_shared, b_buffer, b_sender_side, b_receiver_side,
                   b_recv_park, b_send_park, b_rpc, b_rop, b_ritem, b_rres, b_hist>>

\* mutant: the full test off by one (head_cache + cap + 1)
SendFull_OffByOne(head_cache) == b_tail = wrapping_add(head_cache, b_cap + 1)

\* whether try_send finds the ring full with this value of head_cache
SendFull(head_cache) == b_tail = wrapping_add(head_cache, b_cap)

\* mutant: try_send does not look at drop_count
B_TrySendCheck_NoDisconnect ==
    /\ b_spc = "ts_check"
    /\ b_sres' = b_sres
    /\ b_spc' = IF SendFull(b_head_cache) THEN "ts_refresh" ELSE "ts_write"
    /\ UNCHANGED <<not_bounded, b_shared, b_buffer, b_sender_side, b_receiver_side,
                   b_recv_park, b_send_park, b_sop, b_sitem,
                   b_rpc, b_rop, b_ritem, b_rres, b_hist>>

\* Inner::try_send: drop_count.load and the test against head_cache
B_TrySendCheck ==
    /\ b_spc = "ts_check"
    /\ IF b_drop_count # 0
       THEN /\ b_sres' = [kind |-> "Disconnected", item |-> b_sitem]
            /\ b_spc' = "ts_ret"
       ELSE /\ b_sres' = b_sres
            /\ b_spc' = IF SendFull(b_head_cache) THEN "ts_refresh" ELSE "ts_write"
    /\ UNCHANGED <<not_bounded, b_shared, b_buffer, b_sender_side, b_receiver_side,
                   b_recv_park, b_send_park, b_sop, b_sitem,
                   b_rpc, b_rop, b_ritem, b_rres, b_hist>>

\* mutant: the Full path has already written the item over the oldest slot
B_TrySendRefresh_FullOverwrites ==
    /\ b_spc = "ts_refresh"
    /\ b_head_cache' = b_head
    /\ IF SendFull(b_head)
       THEN /\ b_sres' = [kind |-> "Full", item |-> b_sitem]
            /\ b_buffer' = [b_buffer EXCEPT ![BitAnd(b_tail, b_cap - 1)] = b_sitem]
            /\ b_spc' = "up_swap"
       ELSE /\ b_sres' = b_sres
            /\ b_buffer' = b_buffer
            /\ b_spc' = "ts_write"
    /\ UNCHANGED <<not_bounded, b_shared, b_tail, b_receiver_side,
                   b_recv_park, b_send_park, b_sop, b_sitem,
                   b_rpc, b_rop, b_ritem, b_rres, b_hist>>

\* mutant: head_cache is reloaded but Full is returned without the re-test
B_TrySendRefresh_NoRetest ==
    /\ b_spc = "ts_refresh"
    /\ b_head_cache' = b_head
    /\ b_sres' = [kind |-> "Full", item |-> b_sitem]
    /\ b_spc' = "up_swap"
    /\ UNCHANGED <<not_bounded, b_shared, b_buffer, b_tail, b_receiver_side,
                   b_recv_park, b_send_park, b_sop, b_sitem,
                   b_rpc, b_rop, b_ritem, b_rres, b_hist>>

\* Inner::try_send: head_cache.set(receiver.head.load(Acquire)) and the re-test
B_TrySendRefresh ==
    /\ b_spc = "ts_refresh"
    /\ b_head_cache' = b_head
    /\ IF SendFull(b_head)
       THEN /\ b_sres' = [kind |-> "Full", item |-> b_sitem]
            /\ b_spc' = "up_swap"
       ELSE /\ b_sres' = b_sres
            /\ b_spc' = "ts_write"
    /\ UNCHANGED <<not_bounded, b_shared, b_buffer, b_tail, b_receiver_side,
                   b_recv_park, b_send_park, b_sop, b_sitem,
                   b_rpc, b_rop, b_ritem, b_rres, b_hist>>

\* mutant: try_send writes the slot after the one at tail
SendSlot_NextSlot == BitAnd(b_tail + 1, b_cap - 1)

\* the slot try_send writes
SendSlot == BitAnd(b_tail, b_cap - 1)

\* Inner::try_send: write the item into the slot
B_TrySendWrite ==
    /\ b_spc = "ts_write"
    /\ b_buffer' = [b_buffer EXCEPT ![SendSlot] = b_sitem]
    /\ b_spc' = "ts_store"
    /\ UNCHANGED <<not_bounded, b_shared, b_sender_side, b_receiver_side,
                   b_recv_park, b_send_park, b_sop, b_sitem, b_sres,
                   b_rpc, b_rop, b_ritem, b_rres, b_hist>>

\* Inner::try_send: sender.tail.store(tail + 1, Release)
B_TrySendStore ==
    /\ b_spc = "ts_store"
    /\ b_tail' = wrapping_add(b_tail, 1)
    /\ b_sent' = Append(b_sent, b_sitem)
    /\ b_sres' = [kind |-> "Ok", item |-> 0]
    /\ b_spc' = "up_swap"
    /\ UNCHANGED <<not_bounded, b_shared, b_buffer, b_head_cache, b_receiver_side,
                   b_recv_park, b_send_park, b_sop, b_sitem,
                   b_rpc, b_rop, b_ritem, b_rres, b_received, b_dropped>>

\* Inner::wake_receiver: recv_park.unpark()
B_WakeReceiver ==
    /\ UnparkEnabled(b_recv_park, b_spc)
    /\ LET r == UnparkStep(b_recv_park, b_spc)
       IN  /\ b_recv_park' = r.pk
           /\ b_spc' = IF r.pc = "up_return" THEN "ts_ret" ELSE r.pc
    /\ b_rpc' = IF b_spc = "up_notify" THEN NotifyOne(b_rpc) ELSE b_rpc
    /\ UNCHANGED <<not_bounded, b_shared, b_buffer, b_sender_side, b_receiver_side,
                   b_send_park, b_sop, b_sitem, b_sres,
                   b_rop, b_ritem, b_rres, b_hist>>

\* mutant: Inner::send returns whatever try_send returned, Full included
B_SendReturn_SurfacesFull ==
    /\ b_spc = "ts_ret"
    /\ b_spc' = "idle"
    /\ UNCHANGED <<not_bounded, b_shared, b_buffer, b_sender_side, b_receiver_side,
                   b_recv_park, b_send_park, b_sop, b_sitem, b_sres,
                   b_rpc, b_rop, b_ritem, b_rres, b_hist>>

\* try_send returns; Inner::send matches on the result and parks on Full
B_SendReturn ==
    /\ b_spc = "ts_ret"
    /\ b_spc' = IF b_sop = "send" /\ b_sres.kind = "Full" THEN "pk_fetch_add" ELSE "idle"
    /\ UNCHANGED <<not_bounded, b_shared, b_buffer, b_sender_side, b_receiver_side,
                   b_recv_park, b_send_park, b_sop, b_sitem, b_sres,
                   b_rpc, b_rop, b_ritem, b_rres, b_hist>>

\* Inner::send: receiver.send_park.park(), then the next try_send(resend)
B_SenderPark ==
    /\ ParkEnabled(b_send_park, b_spc)
    /\ LET r == ParkStep(b_send_park, b_spc)
       IN  /\ b_send_park' = r.pk
           /\ b_spc' = IF r.pc = "pk_return" THEN "ts_check" ELSE r.pc
           /\ b_sres' = IF r.pc = "pk_return" THEN NoResult ELSE b_sres
    /\ UNCHANGED <<not_bounded, b_shared, b_buffer, b_sender_side, b_receiver_side,
                   b_recv_park, b_sop, b_sitem,
                   b_rpc, b_rop, b_ritem, b_rres, b_hist>>

\* mutant: the branches of the destructor swapped (deallocates on seeing 0)
B_SenderDrop_Inverted ==
    /\ b_spc = "idle"
    /\ b_drop_count' = b_drop_count + 1
    /\ b_spc' = IF b_drop_count = 0 THEN "dealloc" ELSE "gone"
    /\ b_sop' = "drop"
    /\ UNCHANGED <<not_bounded, b_min_capacity, b_cap, b_freed, b_buffer, b_sender_side,
                   b_receiver_side, b_recv_park, b_send_park, b_sitem, b_sres,
                   b_rpc, b_rop, b_ritem, b_rres, b_hist>>

\* Drop for Sender: drop_count.fetch_add(1, AcqRel)
B_SenderDrop ==
    /\ b_spc = "idle"
    /\ b_drop_count' = b_drop_count + 1
    /\ b_spc' = IF b_drop_count = 0 THEN "gone" ELSE "dealloc"
    /\ b_sop' = "drop"
    /\ UNCHANGED <<not_bounded, b_min_capacity, b_cap, b_freed, b_buffer, b_sender_side,
                   b_receiver_side, b_recv_park, b_send_park, b_sitem, b_sres,
                   b_rpc, b_rop, b_ritem, b_rres, b_hist>>

\* Drop for Sender: drop(Box::from_raw(inner)) runs Inner::drop and frees the block
B_SenderDealloc ==
    /\ b_spc = "dealloc"
    /\ b_dropped' = b_dropped \o BoundedInnerDrop
    /\ b_freed' = b_freed + 1
    /\ b_spc' = "gone"
    /\ UNCHANGED <<not_bounded, b_min_capacity, b_cap, b_drop_count, b_buffer, b_sender_side,
                   b_receiver_side, b_recv_park, b_send_park, b_sop, b_sitem, b_sres,
                   b_rpc, b_rop, b_ritem, b_rres, b_sent, b_received>>

(* ---- consumer thread ---- *)

\* mutant: try_recv reloads the write cursor on every call
TryRecvEntry_AlwaysRefresh == "tr_refresh"

\* mutant: try_recv reads the slot without looking at the write cursor
TryRecvEntry_Unchecked == "tr_read"

\* entry of Inner::try_recv: head against tail_cache, both the consumer's own
TryRecvEntry == IF b_head = b_tail_cache THEN "tr_refresh" ELSE "tr_read"

\* Receiver::try_recv / Receiver::recv is called
B_ReceiverCall ==
    /\ b_rpc = "idle"
    /\ \E op \in {"try_recv", "recv"} : b_rop' = op
    /\ b_rres' = NoResult
    /\ b_rpc' = TryRecvEntry
    /\ UNCHANGED <<not_bounded, b_shared, b_buffer, b_sender_side, b_receiver_side,
                   b_recv_park, b_send_park, b_spc, b_sop, b_sitem, b_sres,
                   b_ritem, b_hist>>

\* Inner::try_recv: tail_cache.set(sender.tail.load(Acquire)) and the re-test
B_TryRecvRefresh ==
    /\ b_rpc = "tr_refresh"
    /\ b_tail_cache' = b_tail
    /\ b_rpc' = IF b_head = b_tail THEN "tr_dc" ELSE "tr_read"
    /\ UNCHANGED <<not_bounded, b_shared, b_buffer, b_sender_side, b_head,
                   b_recv_park, b_send_park, b_spc, b_sop, b_sitem, b_sres,
                   b_rop, b_ritem, b_rres, b_hist>>

\* mutant: Disconnected as soon as drop_count is non-zero, tail not re-read
B_TryRecvDropCount_NoRecheck ==
    /\ b_rpc = "tr_dc"
    /\ IF b_drop_count # 0
       THEN /\ b_rpc' = "tr_ret"
            /\ b_rres' = [kind |-> "Disconnected", item |-> 0]
       ELSE /\ b_rpc' = "up_swap"
            /\ b_rres' = [kind |-> "Empty", item |-> 0]
    /\ UNCHANGED <<not_bounded, b_shared, b_buffer, b_sender_side, b_receiver_side,
                   b_recv_park, b_send_park, b_spc, b_sop, b_sitem, b_sres,
                   b_rop, b_ritem, b_hist>>

\* mutant: a try_recv that finds the ring empty still advances the read cursor
B_TryRecvDropCount_AdvancesHead ==
    /\ b_rpc = "tr_dc"
    /\ b_head' = wrapping_add(b_head, 1)
    /\ IF b_drop_count # 0
       THEN /\ b_rpc' = "tr_recheck"
            /\ b_rres' = b_rres
       ELSE /\ b_rpc' = "up_swap"
            /\ b_rres' = [kind |-> "Empty", item |-> 0]
    /\ UNCHANGED <<not_bounded, b_shared, b_buffer, b_sender_side, b_tail_cache,
                   b_recv_park, b_send_park, b_spc, b_sop, b_sitem, b_sres,
                   b_rop, b_ritem, b_hist>>

\* Inner::try_recv: drop_count.load(Acquire) on an empty ring
B_TryRecvDropCount ==
    /\ b_rpc = "tr_dc"
    /\ IF b_drop_count # 0
       THEN /\ b_rpc' = "tr_recheck"
            /\ b_rres' = b_rres
       ELSE /\ b_rpc' = "up_swap"
            /\ b_rres' = [kind |-> "Empty", item |-> 0]
    /\ UNCHANGED <<not_bounded, b_shared, b_buffer, b_sender_side, b_receiver_side,
                   b_recv_park, b_send_park, b_spc, b_sop, b_sitem, b_sres,
                   b_rop, b_ritem, b_hist>>

\* mutant: the re-check after a disconnect reports Empty whatever it finds
B_TryRecvRecheck_Empty ==
    /\ b_rpc = "tr_recheck"
    /\ b_tail_cache' = b_tail
    /\ b_rres' = [kind |-> "Empty", item |-> 0]
    /\ b_rpc' = "up_swap"
    /\ UNCHANGED <<not_bounded, b_shared, b_buffer, b_sender_side, b_head,
                   b_recv_park, b_send_park, b_spc, b_sop, b_sitem, b_sres,
                   b_rop, b_ritem, b_hist>>

\* Inner::try_recv: tail_cache.set(sender.tail.load(Relaxed)) after a disconnect;
\* Disconnected if still empty, otherwise the call falls through to Empty
B_TryRecvRecheck ==
    /\ b_rpc = "tr_recheck"
    /\ b_tail_cache' = b_tail
    /\ IF b_head = b_tail
       THEN /\ b_rres' = [kind |-> "Disconnected", item |-> 0]
            /\ b_rpc' = "tr_ret"
       ELSE /\ b_rres' = [kind |-> "Empty", item |-> 0]
            /\ b_rpc' = "up_swap"
    /\ UNCHANGED <<not_bounded, b_shared, b_buffer, b_sender_side, b_head,
                   b_recv_park, b_send_park, b_spc, b_sop, b_sitem, b_sres,
                   b_rop, b_ritem, b_hist>>

\* the slot try_recv reads
RecvSlot == BitAnd(b_head, b_cap - 1)

\* Inner::try_recv: read the item out of the slot
B_TryRecvRead ==
    /\ b_rpc = "tr_read"
    /\ b_ritem' = b_buffer[RecvSlot]
    /\ b_rpc' = "tr_store"
    /\ UNCHANGED <<not_bounded, b_shared, b_buffer, b_sender_side, b_receiver_side,
                   b_recv_park, b_send_park, b_spc, b_sop, b_sitem, b_sres,
                   b_rop, b_rres, b_hist>>

\* Inner::try_recv: receiver.head.store(head + 1, Release)
B_TryRecvStore ==
    /\ b_rpc = "tr_store"
    /\ b_head' = wrapping_add(b_head, 1)
    /\ b_received' = Append(b_received, b_ritem)
    /\ b_rres' = [kind |-> "Ok", item |-> b_ritem]
    /\ b_rpc' = "up_swap"
    /\ UNCHANGED <<not_bounded, b_shared, b_buffer, b_sender_side, b_tail_cache,
                   b_recv_park, b_send_park, b_spc, b_sop, b_sitem, b_sres,
                   b_rop, b_ritem, b_sent, b_dropped>>

\* Inner::wake_sender: send_park.unpark()
B_WakeSender ==
    /\ UnparkEnabled(b_send_park, b_rpc)
    /\ LET r == UnparkStep(b_send_park, b_rpc)
       IN  /\ b_send_park' = r.pk
           /\ b_rpc' = IF r.pc = "up_return" THEN "tr_ret" ELSE r.pc
    /\ b_spc' = IF b_rpc = "up_notify" THEN NotifyOne(b_spc) ELSE b_spc
    /\ UNCHANGED <<not_bounded, b_shared, b_buffer, b_sender_side, b_receiver_side,
                   b_recv_park, b_sop, b_sitem, b_sres,
                   b_rop, b_ritem, b_rres, b_hist>>

\* try_recv returns; Inner::recv matches on the result and parks on Empty
B_RecvReturn ==
    /\ b_rpc = "tr_ret"
    /\ b_rpc' = IF b_rop = "recv" /\ b_rres.kind = "Empty" THEN "pk_fetch_add" ELSE "idle"
    /\ UNCHANGED <<not_bounded, b_shared, b_buffer, b_sender_side, b_receiver_side,
                   b_recv_park, b_send_park, b_spc, b_sop, b_sitem, b_sres,
                   b_rop, b_ritem, b_rres, b_hist>>

\* Inner::recv: sender.recv_park.park(), then try_recv()
B_ReceiverPark ==
    /\ ParkEnabled(b_recv_park, b_rpc)
    /\ LET r == ParkStep(b_recv_park, b_rpc)
       IN  /\ b_recv_park' = r.pk
           /\ b_rpc' = IF r.pc = "pk_return" THEN TryRecvEntry ELSE r.pc
           /\ b_rres' = IF r.pc = "pk_return" THEN NoResult ELSE b_rres
    /\ UNCHANGED <<not_bounded, b_shared, b_buffer, b_sender_side, b_receiver_side,
                   b_send_park, b_spc, b_sop, b_sitem, b_sres,
                   b_rop, b_ritem, b_hist>>

\* Drop for Receiver: drop_count.fetch_add(1, AcqRel)
B_ReceiverDrop ==
    /\ b_rpc = "idle"
    /\ b_drop_count' = b_drop_count + 1
    /\ b_rpc' = IF b_drop_count = 0 THEN "gone" ELSE "dealloc"
    /\ b_rop' = "drop"
    /\ UNCHANGED <<not_bounded, b_min_capacity, b_cap, b_freed, b_buffer, b_sender_side,
                   b_receiver_side, b_recv_park, b_send_park, b_spc, b_sop, b_sitem,
                   b_sres, b_ritem, b_rres, b_hist>>

\* Drop for Receiver: drop(Box::from_raw(inner)) runs Inner::drop and frees the block
B_ReceiverDealloc ==
    /\ b_rpc = "dealloc"
    /\ b_dropped' = b_dropped \o BoundedInnerDrop
    /\ b_freed' = b_freed + 1
    /\ b_rpc' = "gone"
    /\ UNCHANGED <<not_bounded, b_min_capacity, b_cap, b_drop_count, b_buffer, b_sender_side,
                   b_receiver_side, b_recv_park, b_send_park, b_spc, b_sop, b_sitem,
                   b_sres, b_rop, b_ritem, b_rres, b_sent, b_received>>

\* Condvar::wait may return without a notification (spurious wake-up)
B_SpuriousWake ==
    /\ \/ b_spc = "pk_sleeping" /\ b_spc' = "pk_lock" /\ b_rpc' = b_rpc
       \/ b_rpc = "pk_sleeping" /\ b_rpc' = "pk_lock" /\ b_spc' = b_spc
    /\ UNCHANGED <<not_bounded, b_shared, b_buffer, b_sender_side, b_receiver_side,
                   b_recv_park, b_send_park, b_sop, b_sitem, b_sres,
                   b_rop, b_ritem, b_rres, b_hist>>

B_SenderStep ==
    \/ B_SenderCall \/ B_TrySendCheck \/ B_TrySendRefresh \/ B_TrySendWrite
    \/ B_TrySendStore \/ B_WakeReceiver \/ B_SendReturn \/ B_SenderPark
    \/ B_SenderDrop \/ B_SenderDealloc

B_ReceiverStep ==
    \/ B_ReceiverCall \/ B_TryRecvRefresh \/ B_TryRecvDropCount \/ B_TryRecvRecheck
    \/ B_TryRecvRead \/ B_TryRecvStore \/ B_WakeSender \/ B_RecvReturn
    \/ B_ReceiverPark \/ B_ReceiverDrop \/ B_ReceiverDealloc

NextB == B_SenderStep \/ B_ReceiverStep \/ B_SpuriousWake


\* no bounded channel has been created
B_Absent ==
    /\ b_min_capacity = 0 /\ b_cap = 0 /\ b_buffer = <<>>
    /\ b_tail = 0 /\ b_head_cache = 0 /\ b_recv_park = ParkerNew
    /\ b_head = 0 /\ b_tail_cache = 0 /\ b_send_park = ParkerNew
    /\ b_drop_count = 0 /\ b_freed = 0
    /\ b_spc = "absent" /\ b_sop = "none" /\ b_sitem = 0 /\ b_sres = NoResult
    /\ b_rpc = "absent" /\ b_rop = "none" /\ b_ritem = 0 /\ b_rres = NoResult
    /\ b_sent = <<>> /\ b_received = <<>> /\ b_dropped = <<>>

(* ==================== spsc::unbounded: operations ===================== *)

\* node addresses; 0 is the null pointer
Nodes == 1..(MaxSendUnbounded + 1)

u_chain == <<u_next, u_value, u_created, u_released>>
u_sender_side == <<u_head, u_next_for_reuse, u_tail_cache>>
u_shared == <<u_tail, u_drop_count, u_freed>>
u_sthread == <<u_spc, u_sop, u_sitem, u_snode, u_sres>>
u_rthread == <<u_rpc, u_rop, u_rnew, u_ritem, u_rres>>
u_hist == <<u_sent, u_received, u_dropped>>

\* channel(): Inner::allocate, Inner::new and the first Node::create
UnboundedChannel ==
    /\ u_next = [n \in Nodes |-> 0]
    /\ u_value = [n \in Nodes |-> 0]
    /\ u_created = 1
    /\ u_released = <<>>
    /\ u_head = 1 /\ u_next_for_reuse = 1 /\ u_tail_cache = 1
    /\ u_park = ParkerNew
    /\ u_tail = 1
    /\ u_drop_count = 0
    /\ u_freed = 0
    /\ u_sop = "none" /\ u_sitem = 0 /\ u_snode = 0 /\ u_sres = NoResult
    /\ u_rop = "none" /\ u_rnew = 0 /\ u_ritem = 0 /\ u_rres = NoResult
    /\ u_sent = <<>> /\ u_received = <<>> /\ u_dropped = <<>>

UnboundedInit == UnboundedChannel /\ u_spc = "idle" /\ u_rpc = "idle"

\* no unbounded channel has been created
U_Absent == UnboundedChannel /\ u_spc = "absent" /\ u_rpc = "absent"

(* ---- producer thread ---- *)

\* mutant: a retired node is never taken again
NextNodeFast_NeverReuses(next_for_reuse, tail_cache) ==
    [some |-> FALSE, node |-> 0, next |-> u_next,
     next_for_reuse |-> next_for_reuse]

\* mutant: reuse stops at head, not at the cached tail
NextNodeFast_UpToHead(next_for_reuse, tail_cache) ==
    IF next_for_reuse # u_head
    THEN [some |-> TRUE,
          node |-> next_for_reuse,
          next |-> [u_next EXCEPT ![next_for_reuse] = 0],
          next_for_reuse |-> u_next[next_for_reuse]]
    ELSE [some |-> FALSE, node |-> 0, next |-> u_next,
          next_for_reuse |-> next_for_reuse]

\* mutant: the reused node keeps its old next pointer
NextNodeFast_KeepsNext(next_for_reuse, tail_cache) ==
    IF next_for_reuse # tail_cache
    THEN [some |-> TRUE,
          node |-> next_for_reuse,
          next |-> u_next,
          next_for_reuse |-> u_next[next_for_reuse]]
    ELSE [some |-> FALSE, node |-> 0, next |-> u_next,
          next_for_reuse |-> next_for_reuse]

\* Inner::next_node_fast: the oldest retired node, its next reset to null
NextNodeFast(next_for_reuse, tail_cache) ==
    IF next_for_reuse # tail_cache
    THEN [some |-> TRUE,
          node |-> next_for_reuse,
          next |-> [u_next EXCEPT ![next_for_reuse] = 0],
          next_for_reuse |-> u_next[next_for_reuse]]
    ELSE [some |-> FALSE, node |-> 0, next |-> u_next,
          next_for_reuse |-> next_for_reuse]

\* Sender::send is called with the next value
U_SenderCall ==
    /\ u_spc = "idle"
    /\ Len(u_sent) < MaxSendUnbounded
    /\ u_sop' = "send"
    /\ u_sitem' = Len(u_sent) + 1
    /\ u_snode' = 0
    /\ u_sres' = NoResult
    /\ u_spc' = "us_check"
    /\ UNCHANGED <<not_unbounded, u_chain, u_sender_side, u_park, u_shared,
                   u_rthread, u_hist>>

\* mutant: send refuses the item once two values are unreceived
U_SendCheck_Capped ==
    /\ u_spc = "us_check"
    /\ IF u_drop_count # 0 \/ Len(u_sent) - Len(u_received) >= 2
       THEN /\ u_sres' = [kind |-> "Disconnected", item |-> u_sitem]
            /\ u_spc' = "idle"
            /\ UNCHANGED <<u_next, u_next_for_reuse, u_snode>>
       ELSE LET f == NextNodeFast(u_next_for_reuse, u_tail_cache)
            IN  /\ u_next' = f.next
                /\ u_next_for_reuse' = f.next_for_reuse
                /\ u_snode' = f.node
                /\ u_spc' = IF f.some THEN "us_write" ELSE "us_refresh"
                /\ u_sres' = u_sres
    /\ UNCHANGED <<not_unbounded, u_value, u_created, u_released, u_head,
                   u_tail_cache, u_park, u_shared, u_sop, u_sitem,
                   u_rthread, u_hist>>

\* mutant: send takes its node before it looks at drop_count
U_SendCheck_NodeFirst ==
    /\ u_spc = "us_check"
    /\ LET f == NextNodeFast(u_next_for_reuse, u_tail_cache)
       IN  /\ u_next' = f.next
           /\ u_next_for_reuse' = f.next_for_reuse
           /\ u_snode' = f.node
           /\ IF u_drop_count # 0
              THEN /\ u_sres' = [kind |-> "Disconnected", item |-> u_sitem]
                   /\ u_spc' = "idle"
              ELSE /\ u_sres' = u_sres
                   /\ u_spc' = IF f.some THEN "us_write" ELSE "us_refresh"
    /\ UNCHANGED <<not_unbounded, u_value, u_created, u_released, u_head,
                   u_tail_cache, u_park, u_shared, u_sop, u_sitem,
                   u_rthread, u_hist>>

\* Inner::send: drop_count.load(Relaxed), then the first next_node_fast
U_SendCheck ==
    /\ u_spc = "us_check"
    /\ IF u_drop_count # 0
       THEN /\ u_sres' = [kind |-> "Disconnected", item |-> u_sitem]
            /\ u_spc' = "idle"
            /\ UNCHANGED <<u_next, u_next_for_reuse, u_snode>>
       ELSE LET f == NextNodeFast(u_next_for_reuse, u_tail_cache)
            IN  /\ u_next' = f.next
                /\ u_next_for_reuse' = f.next_for_reuse
                /\ u_snode' = f.node
                /\ u_spc' = IF f.some THEN "us_write" ELSE "us_refresh"
                /\ u_sres' = u_sres
    /\ UNCHANGED <<not_unbounded, u_value, u_created, u_released, u_head,
                   u_tail_cache, u_park, u_shared, u_sop, u_sitem,
                   u_rthread, u_hist>>

\* mutant: next_node allocates as soon as the cached tail shows no retired node
U_SendRefresh_NoReload ==
    /\ u_spc = "us_refresh"
    /\ u_created' = u_created + 1
    /\ u_snode' = u_created + 1
    /\ u_next' = [u_next EXCEPT ![u_created + 1] = 0]
    /\ u_value' = [u_value EXCEPT ![u_created + 1] = 0]
    /\ u_spc' = "us_write"
    /\ UNCHANGED <<not_unbounded, u_released, u_sender_side, u_park, u_shared,
                   u_sop, u_sitem, u_sres, u_rthread, u_hist>>

\* Inner::next_node: tail_cache.set(tail.load(Acquire)), the second
\* next_node_fast, and Node::create when no retired node exists
U_SendRefresh ==
    /\ u_spc = "us_refresh"
    /\ u_tail_cache' = u_tail
    /\ LET f == NextNodeFast(u_next_for_reuse, u_tail)
       IN  IF f.some
           THEN /\ u_next' = f.next
                /\ u_next_for_reuse' = f.next_for_reuse
                /\ u_snode' = f.node
                /\ UNCHANGED <<u_value, u_created>>
           ELSE /\ u_created' = u_created + 1
                /\ u_snode' = u_created + 1
                /\ u_next' = [u_next EXCEPT ![u_created + 1] = 0]
                /\ u_value' = [u_value EXCEPT ![u_created + 1] = 0]
                /\ UNCHANGED u_next_for_reuse
    /\ u_spc' = "us_write"
    /\ UNCHANGED <<not_unbounded, u_released, u_head, u_park, u_shared,
                   u_sop, u_sitem, u_sres, u_rthread, u_hist>>

\* Inner::send: write the item into the node's value
U_SendWrite ==
    /\ u_spc = "us_write"
    /\ u_value' = [u_value EXCEPT ![u_snode] = u_sitem]
    /\ u_spc' = "us_link"
    /\ UNCHANGED <<not_unbounded, u_next, u_created, u_released, u_sender_side,
                   u_park, u_shared, u_sop, u_sitem, u_snode, u_sres,
                   u_rthread, u_hist>>

\* mutant: send links the node behind the old head but leaves head where it was
U_SendLink_KeepsHead ==
    /\ u_spc = "us_link"
    /\ u_head' = u_head
    /\ u_next' = [u_next EXCEPT ![u_head] = u_snode]
    /\ u_sent' = Append(u_sent, u_sitem)
    /\ u_sres' = [kind |-> "Ok", item |-> 0]
    /\ u_spc' = "up_swap"
    /\ UNCHANGED <<not_unbounded, u_value, u_created, u_released,
                   u_next_for_reuse, u_tail_cache, u_park, u_shared,
                   u_sop, u_sitem, u_snode, u_rthread, u_received, u_dropped>>

\* mutant: send links the node and returns without unpark_receiver
U_SendLink_NoUnpark ==
    /\ u_spc = "us_link"
    /\ u_head' = u_snode
    /\ u_next' = [u_next EXCEPT ![u_head] = u_snode]
    /\ u_sent' = Append(u_sent, u_sitem)
    /\ u_sres' = [kind |-> "Ok", item |-> 0]
    /\ u_spc' = "idle"
    /\ UNCHANGED <<not_unbounded, u_value, u_created, u_released,
                   u_next_for_reuse, u_tail_cache, u_park, u_shared,
                   u_sop, u_sitem, u_snode, u_rthread, u_received, u_dropped>>

\* Inner::send: head.replace(node) and old.next.store(node, Release)
U_SendLink ==
    /\ u_spc = "us_link"
    /\ u_head' = u_snode
    /\ u_next' = [u_next EXCEPT ![u_head] = u_snode]
    /\ u_sent' = Append(u_sent, u_sitem)
    /\ u_sres' = [kind |-> "Ok", item |-> 0]
    /\ u_spc' = "up_swap"
    /\ UNCHANGED <<not_unbounded, u_value, u_created, u_released,
                   u_next_for_reuse, u_tail_cache, u_park, u_shared,
                   u_sop, u_sitem, u_snode, u_rthread, u_received, u_dropped>>

\* Inner::unpark_receiver, called by send and by Drop for Sender
U_UnparkReceiver ==
    /\ UnparkEnabled(u_park, u_spc)
    /\ LET r == UnparkStep(u_park, u_spc)
       IN  /\ u_park' = r.pk
           /\ u_spc' = IF r.pc # "up_return" THEN r.pc
                       ELSE IF u_sop = "drop" THEN "holder_drop" ELSE "idle"
    /\ u_rpc' = IF u_spc = "up_notify" THEN NotifyOne(u_rpc) ELSE u_rpc
    /\ UNCHANGED <<not_unbounded, u_chain, u_sender_side, u_shared,
                   u_sop, u_sitem, u_snode, u_sres,
                   u_rop, u_rnew, u_ritem, u_rres, u_hist>>

\* mutant: Sender::drop makes both of its increments before the unpark
U_SenderDrop_BothIncrements ==
    /\ u_spc = "idle"
    /\ u_drop_count' = u_drop_count + 2
    /\ u_sop' = "drop"
    /\ u_spc' = "up_swap"
    /\ UNCHANGED <<not_unbounded, u_chain, u_sender_side, u_park, u_tail, u_freed,
                   u_sitem, u_snode, u_sres, u_rthread, u_hist>>

\* mutant: Sender::drop unparks without having incremented drop_count
U_SenderDrop_NoIncrement ==
    /\ u_spc = "idle"
    /\ u_drop_count' = u_drop_count
    /\ u_sop' = "drop"
    /\ u_spc' = "up_swap"
    /\ UNCHANGED <<not_unbounded, u_chain, u_sender_side, u_park, u_tail, u_freed,
                   u_sitem, u_snode, u_sres, u_rthread, u_hist>>

\* Drop for Sender: drop_count.fetch_add(1, AcqRel); unpark_receiver follows
U_SenderDrop ==
    /\ u_spc = "idle"
    /\ u_drop_count' = u_drop_count + 1
    /\ u_sop' = "drop"
    /\ u_spc' = "up_swap"
    /\ UNCHANGED <<not_unbounded, u_chain, u_sender_side, u_park, u_tail, u_freed,
                   u_sitem, u_snode, u_sres, u_rthread, u_hist>>

\* mutant: the two-state handshake of the bounded channel (free on seeing 1)
HolderDrop_FreesAtOne(previous) ==
    IF previous = 0 THEN "gone"
    ELSE IF previous = 1 THEN "dealloc"
    ELSE "unreachable"

\* Drop for InnerHolder: the match on the value fetch_add returned
HolderDrop(previous) ==
    IF previous \in {0, 1} THEN "gone"
    ELSE IF previous = 2 THEN "dealloc"
    ELSE "unreachable"

\* Drop for InnerHolder (the Sender's): drop_count.fetch_add(1, AcqRel)
U_SenderHolderDrop ==
    /\ u_spc = "holder_drop"
    /\ u_drop_count' = u_drop_count + 1
    /\ u_spc' = HolderDrop(u_drop_count)
    /\ UNCHANGED <<not_unbounded, u_chain, u_sender_side, u_park, u_tail, u_freed,
                   u_sop, u_sitem, u_snode, u_sres, u_rthread, u_hist>>

(* ---- Drop for Inner ---- *)

\* first loop: release the nodes from next_for_reuse through tail; cont is the
\* node after tail (0: none).  A null next before tail is reached, or a chain
\* that never reaches tail, releases the invalid pointer 0.
RECURSIVE ReleaseRetired(_, _)
ReleaseRetired(current, fuel) ==
    IF current = 0 \/ fuel = 0 THEN [released |-> <<0>>, cont |-> 0]
    ELSE IF current = u_tail
    THEN [released |-> <<current>>, cont |-> u_next[current]]
    ELSE LET rest == ReleaseRetired(u_next[current], fuel - 1)
         IN  [released |-> <<current>> \o rest.released, cont |-> rest.cont]

\* mutant: the second loop destroys the values but releases no node
RECURSIVE DropPending_KeepsNodes(_, _)
DropPending_KeepsNodes(current, fuel) ==
    IF current = 0 \/ fuel = 0 THEN [released |-> <<>>, dropped |-> <<>>]
    ELSE LET rest == DropPending_KeepsNodes(u_next[current], fuel - 1)
         IN  [released |-> <<>>,
              dropped |-> <<u_value[current]>> \o rest.dropped]

\* second loop: destroy the value of, then release, every node after tail
RECURSIVE DropPending(_, _)
DropPending(current, fuel) ==
    IF current = 0 THEN [released |-> <<>>, dropped |-> <<>>]
    ELSE IF fuel = 0 THEN [released |-> <<0>>, dropped |-> <<>>]
    ELSE LET rest == DropPending(u_next[current], fuel - 1)
         IN  [released |-> <<current>> \o rest.released,
              dropped |-> <<u_value[current]>> \o rest.dropped]

\* mutant: the second loop starts at tail instead of the node after it
UnboundedInnerDrop_FromTail ==
    LET r == ReleaseRetired(u_next_for_reuse, Cardinality(Nodes) + 1)
        d == DropPending(u_tail, Cardinality(Nodes) + 1)
    IN  [released |-> r.released \o d.released, dropped |-> d.dropped]

\* Drop for Inner: the nodes released and the values destroyed, in order
UnboundedInnerDrop ==
    LET r == ReleaseRetired(u_next_for_reuse, Cardinality(Nodes) + 1)
        d == DropPending(r.cont, Cardinality(Nodes) + 1)
    IN  [released |-> r.released \o d.released, dropped |-> d.dropped]

\* Drop for InnerHolder (the Sender's): drop_in_place and dealloc of Inner
U_SenderDealloc ==
    /\ u_spc = "dealloc"
    /\ u_released' = u_released \o UnboundedInnerDrop.released
    /\ u_dropped' = u_dropped \o UnboundedInnerDrop.dropped
    /\ u_freed' = u_freed + 1
    /\ u_spc' = "gone"
    /\ UNCHANGED <<not_unbounded, u_next, u_value, u_created, u_sender_side,
                   u_park, u_tail, u_drop_count, u_sop, u_sitem, u_snode, u_sres,
                   u_rthread, u_sent, u_received>>

(* ---- consumer thread ---- *)

\* Receiver::try_recv / Receiver::recv is called
U_ReceiverCall ==
    /\ u_rpc = "idle"
    /\ \E op \in {"try_recv", "recv"} : u_rop' = op
    /\ u_rres' = NoResult
    /\ u_rpc' = "ur_next"
    /\ UNCHANGED <<not_unbounded, u_chain, u_sender_side, u_park, u_shared,
                   u_sthread, u_rnew, u_ritem, u_hist>>

\* where try_recv goes when it returns Err(Empty): Inner::recv parks
RecvOnEmpty == IF u_rop = "recv" THEN "pk_fetch_add" ELSE "idle"

\* Inner::try_recv: tail.next.load(Acquire)
U_TryRecvNext ==
    /\ u_rpc = "ur_next"
    /\ IF u_next[u_tail] # 0
       THEN u_rnew' = u_next[u_tail] /\ u_rpc' = "ur_read"
       ELSE u_rnew' = u_rnew /\ u_rpc' = "ur_dc"
    /\ UNCHANGED <<not_unbounded, u_chain, u_sender_side, u_park, u_shared,
                   u_sthread, u_rop, u_ritem, u_rres, u_hist>>

\* mutant: Disconnected as soon as drop_count is non-zero, next not re-read
U_TryRecvDropCount_NoRecheck ==
    /\ u_rpc = "ur_dc"
    /\ IF u_drop_count = 0
       THEN u_rres' = [kind |-> "Empty", item |-> 0] /\ u_rpc' = RecvOnEmpty
       ELSE u_rres' = [kind |-> "Disconnected", item |-> 0] /\ u_rpc' = "idle"
    /\ UNCHANGED <<not_unbounded, u_chain, u_sender_side, u_park, u_shared,
                   u_sthread, u_rop, u_rnew, u_ritem, u_hist>>

\* Inner::try_recv: drop_count.load(Acquire) after a null next
U_TryRecvDropCount ==
    /\ u_rpc = "ur_dc"
    /\ IF u_drop_count = 0
       THEN u_rres' = [kind |-> "Empty", item |-> 0] /\ u_rpc' = RecvOnEmpty
       ELSE u_rres' = u_rres /\ u_rpc' = "ur_recheck"
    /\ UNCHANGED <<not_unbounded, u_chain, u_sender_side, u_park, u_shared,
                   u_sthread, u_rop, u_rnew, u_ritem, u_hist>>

\* Inner::try_recv: the second tail.next.load(Acquire), after a disconnect
U_TryRecvRecheck ==
    /\ u_rpc = "ur_recheck"
    /\ IF u_next[u_tail] # 0
       THEN u_rnew' = u_next[u_tail] /\ u_rpc' = "ur_read" /\ u_rres' = u_rres
       ELSE /\ u_rnew' = u_rnew
            /\ u_rres' = [kind |-> "Disconnected", item |-> 0]
            /\ u_rpc' = "idle"
    /\ UNCHANGED <<not_unbounded, u_chain, u_sender_side, u_park, u_shared,
                   u_sthread, u_rop, u_ritem, u_hist>>

\* Inner::try_recv: read the value out of new_tail
U_TryRecvRead ==
    /\ u_rpc = "ur_read"
    /\ u_ritem' = u_value[u_rnew]
    /\ u_rpc' = "ur_store"
    /\ UNCHANGED <<not_unbounded, u_chain, u_sender_side, u_park, u_shared,
                   u_sthread, u_rop, u_rnew, u_rres, u_hist>>

\* Inner::try_recv: tail.store(new_tail, Release) and return Ok(ret)
U_TryRecvStore ==
    /\ u_rpc = "ur_store"
    /\ u_tail' = u_rnew
    /\ u_received' = Append(u_received, u_ritem)
    /\ u_rres' = [kind |-> "Ok", item |-> u_ritem]
    /\ u_rpc' = "idle"
    /\ UNCHANGED <<not_unbounded, u_chain, u_sender_side, u_park, u_drop_count,
                   u_freed, u_sthread, u_rop, u_rnew, u_ritem, u_sent, u_dropped>>

\* Inner::recv: sender.park_receiver.park(), then try_recv again
U_ReceiverPark ==
    /\ ParkEnabled(u_park, u_rpc)
    /\ LET r == ParkStep(u_park, u_rpc)
       IN  /\ u_park' = r.pk
           /\ u_rpc' = IF r.pc = "pk_return" THEN "ur_next" ELSE r.pc
           /\ u_rres' = IF r.pc = "pk_return" THEN NoResult ELSE u_rres
    /\ UNCHANGED <<not_unbounded, u_chain, u_sender_side, u_shared,
                   u_sthread, u_rop, u_rnew, u_ritem, u_hist>>

\* Drop for Receiver is Drop for InnerHolder: drop_count.fetch_add(1, AcqRel)
U_ReceiverDrop ==
    /\ u_rpc = "idle"
    /\ u_drop_count' = u_drop_count + 1
    /\ u_rpc' = HolderDrop(u_drop_count)
    /\ u_rop' = "drop"
    /\ UNCHANGED <<not_unbounded, u_chain, u_sender_side, u_park, u_tail, u_freed,
                   u_sthread, u_rnew, u_ritem, u_rres, u_hist>>

\* Drop for InnerHolder (the Receiver's): drop_in_place and dealloc of Inner
U_ReceiverDealloc ==
    /\ u_rpc = "dealloc"
    /\ u_released' = u_released \o UnboundedInnerDrop.released
    /\ u_dropped' = u_dropped \o UnboundedInnerDrop.dropped
    /\ u_freed' = u_freed + 1
    /\ u_rpc' = "gone"
    /\ UNCHANGED <<not_unbounded, u_next, u_value, u_created, u_sender_side,
                   u_park, u_tail, u_drop_count, u_sthread,
                   u_rop, u_rnew, u_ritem, u_rres, u_sent, u_received>>

\* Condvar::wait may return without a notification (spurious wake-up)
U_SpuriousWake ==
    /\ u_rpc = "pk_sleeping"
    /\ u_rpc' = "pk_lock"
    /\ UNCHANGED <<not_unbounded, u_chain, u_sender_side, u_park, u_shared,
                   u_sthread, u_rop, u_rnew, u_ritem, u_rres, u_hist>>

U_SenderStep ==
    \/ U_SenderCall \/ U_SendCheck \/ U_SendRefresh \/ U_SendWrite \/ U_SendLink
    \/ U_UnparkReceiver \/ U_SenderDrop \/ U_SenderHolderDrop \/ U_SenderDealloc

U_ReceiverStep ==
    \/ U_ReceiverCall \/ U_TryRecvNext \/ U_TryRecvDropCount \/ U_TryRecvRecheck
    \/ U_TryRecvRead \/ U_TryRecvStore \/ U_ReceiverPark
    \/ U_ReceiverDrop \/ U_ReceiverDealloc

NextU == U_SenderStep \/ U_ReceiverStep \/ U_SpuriousWake

(* =========================== specifications =========================== *)

\* no call of receiver_connected / sender_connected has returned
NoConnCalls == b_sconn = <<>> /\ b_rconn = <<>> /\ u_sconn = <<>> /\ u_rconn = <<>>

\* Parker::new, nothing called on it yet
ParkerInit ==
    /\ p_pk = ParkerNew
    /\ p_parks = 0 /\ p_unparks = 0 /\ p_pending = FALSE
    /\ p_swaps = 0 /\ p_woken = FALSE
    /\ p_last = [swaps |-> 0, slow |-> FALSE]

\* no stand-alone Parker is in use
P_Absent == ParkerInit /\ p_ppc = "absent" /\ p_upc = "absent" /\ p_upc2 = "absent"

\* no legacy Queue is in use
Q_Absent ==
    /\ q_N = 0 /\ q_elems = <<>>
    /\ q_head = 0 /\ q_tail_cache = 0 /\ q_tail = 0 /\ q_head_cache = 0
    /\ q_ppc = "absent" /\ q_pitem = 0 /\ q_pres = NoResult
    /\ q_cpc = "absent" /\ q_citem = 0 /\ q_cres = NoResult
    /\ q_pushed = <<>> /\ q_popped = <<>>

\* none of the stand-alone components is in use
StandaloneAbsent == P_Absent /\ Q_Absent

InitB == BoundedInit /\ U_Absent /\ NoConnCalls /\ StandaloneAbsent
InitU == UnboundedInit /\ B_Absent /\ NoConnCalls /\ StandaloneAbsent

\* the bounded channel with one producer and one consumer thread
SpecB == InitB /\ [][NextB]_vars

\* the unbounded channel with one producer and one consumer thread
SpecU == InitU /\ [][NextU]_vars

\* Sender::send called by the one thread that owns both endpoints, when every
\* value sent so far has been received
ST_SendCall ==
    /\ u_spc = "idle" /\ u_rpc = "idle"
    /\ Len(u_sent) = Len(u_received)
    /\ Len(u_sent) < MaxRounds
    /\ u_sop' = "send"
    /\ u_sitem' = Len(u_sent) + 1
    /\ u_snode' = 0
    /\ u_sres' = NoResult
    /\ u_spc' = "us_check"
    /\ UNCHANGED <<not_unbounded, u_chain, u_sender_side, u_park, u_shared,
                   u_rthread, u_hist>>

\* Receiver::try_recv called by the same thread once its send has returned
ST_TryRecvCall ==
    /\ u_spc = "idle" /\ u_rpc = "idle"
    /\ Len(u_received) < Len(u_sent)
    /\ u_rop' = "try_recv"
    /\ u_rres' = NoResult
    /\ u_rpc' = "ur_next"
    /\ UNCHANGED <<not_unbounded, u_chain, u_sender_side, u_park, u_shared,
                   u_sthread, u_rnew, u_ritem, u_hist>>

\* one thread: a send, then a try_recv that succeeds, then a send, ...
NextAlternating ==
    \/ ST_SendCall \/ U_SendCheck \/ U_SendRefresh \/ U_SendWrite \/ U_SendLink
    \/ U_UnparkReceiver
    \/ ST_TryRecvCall \/ U_TryRecvNext \/ U_TryRecvRead \/ U_TryRecvStore

\* the unbounded channel driven by a single thread that alternates
SpecAlternating == InitU /\ [][NextAlternating]_vars

\* the threads' steps inside a call or a destructor: the scheduler runs a
\* thread that can run; nothing obliges a thread to start a call or to drop
U_SenderRuns ==
    \/ U_SendCheck \/ U_SendRefresh \/ U_SendWrite \/ U_SendLink
    \/ U_UnparkReceiver \/ U_SenderHolderDrop \/ U_SenderDealloc

U_ReceiverRuns ==
    \/ U_TryRecvNext \/ U_TryRecvDropCount \/ U_TryRecvRecheck
    \/ U_TryRecvRead \/ U_TryRecvStore \/ U_ReceiverPark \/ U_ReceiverDealloc

\* the unbounded channel under a fair scheduler; spurious wake-ups stay optional
FairSpecU == SpecU /\ WF_vars(U_SenderRuns) /\ WF_vars(U_ReceiverRuns)

\* Inner::send is called (Sender::send), never try_send
B_BlockingSend == B_SenderCall /\ b_sop' = "send"

\* Inner::recv is called (Receiver::recv), never try_recv
B_BlockingRecv == B_ReceiverCall /\ b_rop' = "recv"

\* the producer's steps inside send: try_send, wake_receiver, park
B_SenderWorks ==
    \/ B_TrySendCheck \/ B_TrySendRefresh \/ B_TrySendWrite \/ B_TrySendStore
    \/ B_WakeReceiver \/ B_SendReturn \/ B_SenderPark

\* the consumer's steps inside recv: try_recv, wake_sender, park; drop_count
\* stays 0 while both endpoints live, so the re-check of tail is never reached
B_ReceiverWorks ==
    \/ B_TryRecvRefresh \/ B_TryRecvDropCount \/ B_TryRecvRead \/ B_TryRecvStore
    \/ B_WakeSender \/ B_RecvReturn \/ B_ReceiverPark

NextBlockingB ==
    \/ B_BlockingSend \/ B_SenderWorks
    \/ B_BlockingRecv \/ B_ReceiverWorks
    \/ B_SpuriousWake

\* a producer thread that only calls send and a consumer thread that only calls
\* recv, both endpoints kept alive, under a fair scheduler.  A thread's step
\* can be mutex.lock() on a Parker's mutex, which the peer holds from time to
\* time: the fairness is strong, a lock that is free again and again is
\* eventually acquired.  Spurious wake-ups stay optional.
BlockingSpecB ==
    /\ InitB /\ [][NextBlockingB]_vars
    /\ SF_vars(B_BlockingSend \/ B_SenderWorks)
    /\ SF_vars(B_BlockingRecv \/ B_ReceiverWorks)

\* Sender::try_send is called, never send
B_NonBlockingSend == B_SenderCall /\ b_sop' = "try_send"

\* Receiver::try_recv is called, never recv
B_NonBlockingRecv == B_ReceiverCall /\ b_rop' = "try_recv"

\* threads that use the non-blocking API only; the park steps of Inner::send
\* and Inner::recv are not part of any call made here
NextTryB ==
    \/ B_NonBlockingSend \/ B_TrySendCheck \/ B_TrySendRefresh \/ B_TrySendWrite
    \/ B_TrySendStore \/ B_WakeReceiver \/ B_SendReturn
    \/ B_SenderDrop \/ B_SenderDealloc
    \/ B_NonBlockingRecv \/ B_TryRecvRefresh \/ B_TryRecvDropCount
    \/ B_TryRecvRecheck \/ B_TryRecvRead \/ B_TryRecvStore \/ B_WakeSender
    \/ B_RecvReturn \/ B_ReceiverDrop \/ B_ReceiverDealloc

\* the bounded channel used through try_send and try_recv only
TrySpecB == InitB /\ [][NextTryB]_vars

\* Inner::peer_connected (bounded): shared.drop_count.load(Acquire) == 0
B_PeerConnected == b_drop_count = 0

\* mutant: connected until drop_count reaches 2 (the Sender's two increments)
U_PeerConnected_UntilTwo == u_drop_count < 2

\* Inner::peer_connected (unbounded): drop_count.load(Acquire) == 0
U_PeerConnected == u_drop_count = 0

\* bounded Sender::receiver_connected
B_ReceiverConnected ==
    /\ b_spc = "idle" /\ Len(b_sconn) < MaxConnCalls
    /\ b_sconn' = Append(b_sconn, B_PeerConnected)
    /\ UNCHANGED <<bvars, uvars, standalone, b_rconn, u_sconn, u_rconn>>

\* bounded Receiver::sender_connected
B_SenderConnected ==
    /\ b_rpc = "idle" /\ Len(b_rconn) < MaxConnCalls
    /\ b_rconn' = Append(b_rconn, B_PeerConnected)
    /\ UNCHANGED <<bvars, uvars, standalone, b_sconn, u_sconn, u_rconn>>

\* unbounded Sender::receiver_connected
U_ReceiverConnected ==
    /\ u_spc = "idle" /\ Len(u_sconn) < MaxConnCalls
    /\ u_sconn' = Append(u_sconn, U_PeerConnected)
    /\ UNCHANGED <<bvars, uvars, standalone, b_sconn, b_rconn, u_rconn>>

\* unbounded Receiver::sender_connected
U_SenderConnected ==
    /\ u_rpc = "idle" /\ Len(u_rconn) < MaxConnCalls
    /\ u_rconn' = Append(u_rconn, U_PeerConnected)
    /\ UNCHANGED <<bvars, uvars, standalone, b_sconn, b_rconn, u_sconn>>

\* the endpoints' destructors and the connection queries, the only code that
\* touches drop_count
NextConn ==
    \/ B_ReceiverConnected \/ B_SenderConnected
    \/ B_SenderDrop \/ B_SenderDealloc \/ B_ReceiverDrop \/ B_ReceiverDealloc
    \/ U_ReceiverConnected \/ U_SenderConnected
    \/ U_SenderDrop \/ U_UnparkReceiver \/ U_SenderHolderDrop \/ U_SenderDealloc
    \/ U_ReceiverDrop \/ U_ReceiverDealloc

\* a channel of either kind whose endpoints are queried and dropped
ConnSpec == (InitB \/ InitU) /\ [][NextConn]_vars

(* ---- a Parker shared by one parking thread and the threads that unpark ---- *)

\* everything but the stand-alone Parker
not_parker == <<bvars, uvars, conn_obs, qvars>>

\* park() is called by the thread that owns the parking side
P_ParkCall ==
    /\ p_ppc = "idle" /\ p_parks < MaxParkCalls
    /\ p_parks' = p_parks + 1
    /\ p_ppc' = "pk_fetch_add"
    /\ p_woken' = FALSE
    /\ UNCHANGED <<not_parker, p_pk, p_upc, p_upc2, p_unparks, p_pending,
                   p_swaps, p_last>>

\* Parker::park and Parker::park_slow, one step; a return consumes the
\* notification
P_Park ==
    /\ ParkEnabled(p_pk, p_ppc)
    /\ LET r == ParkStep(p_pk, p_ppc)
       IN  /\ p_pk' = r.pk
           /\ p_ppc' = IF r.pc = "pk_return" THEN "idle" ELSE r.pc
           /\ p_pending' = IF r.pc = "pk_return" THEN FALSE ELSE p_pending
           /\ p_swaps' = IF r.pc = "pk_return" THEN 0 ELSE p_swaps
           /\ p_last' = IF r.pc = "pk_return"
                        THEN [swaps |-> p_swaps, slow |-> p_ppc # "pk_fetch_add"]
                        ELSE p_last
    /\ UNCHANGED <<not_parker, p_upc, p_upc2, p_parks, p_unparks, p_woken>>

\* unpark() is called by the other thread
P_UnparkCall ==
    /\ p_upc = "idle" /\ p_unparks < MaxParkCalls
    /\ p_unparks' = p_unparks + 1
    /\ p_upc' = "up_swap"
    /\ UNCHANGED <<not_parker, p_pk, p_ppc, p_upc2, p_parks, p_pending, p_hist>>

\* the parking thread's position after a step of unpark at position pc
P_AfterNotify(pc) == IF pc = "up_notify" THEN NotifyOne(p_ppc) ELSE p_ppc

\* Parker::unpark, one step: swap, mutex.lock(), notify_one
P_Unpark ==
    /\ UnparkEnabled(p_pk, p_upc)
    /\ LET r == UnparkStep(p_pk, p_upc)
       IN  /\ p_pk' = r.pk
           /\ p_upc' = IF r.pc = "up_return" THEN "idle" ELSE r.pc
    /\ p_ppc' = P_AfterNotify(p_upc)
    /\ p_pending' = IF p_upc = "up_swap" THEN TRUE ELSE p_pending
    /\ p_swaps' = IF p_upc = "up_swap" THEN p_swaps + 1 ELSE p_swaps
    /\ p_woken' = (p_woken \/ P_AfterNotify(p_upc) # p_ppc)
    /\ UNCHANGED <<not_parker, p_upc2, p_parks, p_unparks, p_last>>

\* unpark() is called by a second thread (Parker is Sync)
P_UnparkCall2 ==
    /\ p_upc2 = "idle" /\ p_unparks < MaxParkCalls
    /\ p_unparks' = p_unparks + 1
    /\ p_upc2' = "up_swap"
    /\ UNCHANGED <<not_parker, p_pk, p_ppc, p_upc, p_parks, p_pending, p_hist>>

\* Parker::unpark in the second thread, one step
P_Unpark2 ==
    /\ UnparkEnabled(p_pk, p_upc2)
    /\ LET r == UnparkStep(p_pk, p_upc2)
       IN  /\ p_pk' = r.pk
           /\ p_upc2' = IF r.pc = "up_return" THEN "idle" ELSE r.pc
    /\ p_ppc' = P_AfterNotify(p_upc2)
    /\ p_pending' = IF p_upc2 = "up_swap" THEN TRUE ELSE p_pending
    /\ p_swaps' = IF p_upc2 = "up_swap" THEN p_swaps + 1 ELSE p_swaps
    /\ p_woken' = (p_woken \/ P_AfterNotify(p_upc2) # p_ppc)
    /\ UNCHANGED <<not_parker, p_upc, p_parks, p_unparks, p_last>>

\* Condvar::wait may return without a notification (spurious wake-up)
P_SpuriousWake ==
    /\ p_ppc = "pk_sleeping"
    /\ p_ppc' = "pk_lock"
    /\ p_woken' = TRUE
    /\ UNCHANGED <<not_parker, p_pk, p_upc, p_upc2, p_parks, p_unparks, p_pending,
                   p_swaps, p_last>>

NextP ==
    \/ P_ParkCall \/ P_Park \/ P_UnparkCall \/ P_Unpark
    \/ P_UnparkCall2 \/ P_Unpark2 \/ P_SpuriousWake

InitP ==
    /\ ParkerInit /\ p_ppc = "idle" /\ p_upc = "idle" /\ p_upc2 = "idle"
    /\ B_Absent /\ U_Absent /\ NoConnCalls /\ Q_Absent

\* the Parker with its threads
SpecP == InitP /\ [][NextP]_vars

\* the same under a fair scheduler: a thread inside park or unpark runs;
\* calls and spurious wake-ups stay optional
FairSpecP ==
    SpecP /\ WF_vars(P_Park) /\ WF_vars(P_Unpark) /\ WF_vars(P_Unpark2)

(* ---- the legacy Queue<T, N> with one pushing and one popping thread ---- *)

\* everything but the legacy Queue
not_queue == <<bvars, uvars, conn_obs, pvars>>

q_writer == <<q_tail, q_head_cache>>
q_reader == <<q_head, q_tail_cache>>
q_pthread == <<q_ppc, q_pitem, q_pres>>
q_cthread == <<q_cpc, q_citem, q_cres>>
q_hist == <<q_pushed, q_popped>>

\* Queue::new / Queue::new_split for a power of two N
QueueNew(N) ==
    /\ q_N = N
    /\ q_elems = [i \in 0..(N - 1) |-> 0]
    /\ q_head = 0 /\ q_tail_cache = 0
    /\ q_tail = 0 /\ q_head_cache = 0

\* the where clause of Queue: N.count_ones() == 1
QueueSizes == {n \in 1..(Modulus - 1) : is_power_of_two(n)}

QueueInit ==
    /\ \E N \in QueueSizes : QueueNew(N)
    /\ q_ppc = "idle" /\ q_pitem = 0 /\ q_pres = NoResult
    /\ q_cpc = "idle" /\ q_citem = 0 /\ q_cres = NoResult
    /\ q_pushed = <<>> /\ q_popped = <<>>

\* the result of a pop that found the queue empty
PopNone == [kind |-> "PopNone", item |-> 0]

\* Producer::push(item) is called; a refused item is offered again
Q_PushCall ==
    /\ q_ppc = "idle" /\ Len(q_pushed) < MaxPush
    /\ q_pitem' = Len(q_pushed) + 1
    /\ q_pres' = NoResult
    /\ q_ppc' = "push_check"
    /\ UNCHANGED <<not_queue, q_N, q_elems, q_writer, q_reader, q_cthread, q_hist>>

\* Queue::push: tail == head_cache.wrapping_add(N)
PushFull(head_cache) == q_tail = wrapping_add(head_cache, q_N)

\* Queue::push: the test against the cached head
Q_PushCheck ==
    /\ q_ppc = "push_check"
    /\ q_ppc' = IF PushFull(q_head_cache) THEN "push_refresh" ELSE "push_write"
    /\ UNCHANGED <<not_queue, q_N, q_elems, q_writer, q_reader, q_pitem, q_pres,
                   q_cthread, q_hist>>

\* mutant: push reports a full queue from the cached head, without reloading
Q_PushRefresh_NoReload ==
    /\ q_ppc = "push_refresh"
    /\ q_pres' = [kind |-> "Err", item |-> q_pitem]
    /\ q_ppc' = "idle"
    /\ UNCHANGED <<not_queue, q_N, q_elems, q_writer, q_reader, q_pitem,
                   q_cthread, q_hist>>

\* Queue::push: head_cache.set(reader.head.load(Acquire)), test again,
\* return Err(item) when still full
Q_PushRefresh ==
    /\ q_ppc = "push_refresh"
    /\ q_head_cache' = q_head
    /\ IF PushFull(q_head)
       THEN /\ q_pres' = [kind |-> "Err", item |-> q_pitem]
            /\ q_ppc' = "idle"
       ELSE /\ q_pres' = q_pres
            /\ q_ppc' = "push_write"
    /\ UNCHANGED <<not_queue, q_N, q_elems, q_tail, q_reader, q_pitem,
                   q_cthread, q_hist>>

\* Queue::push: elems[tail % N].write(item)
Q_PushWrite ==
    /\ q_ppc = "push_write"
    /\ q_elems' = [q_elems EXCEPT ![q_tail % q_N] = q_pitem]
    /\ q_ppc' = "push_store"
    /\ UNCHANGED <<not_queue, q_N, q_writer, q_reader, q_pitem, q_pres,
                   q_cthread, q_hist>>

\* Queue::push: writer.tail.store(tail.wrapping_add(1), Release); Ok(())
Q_PushStore ==
    /\ q_ppc = "push_store"
    /\ q_tail' = wrapping_add(q_tail, 1)
    /\ q_pushed' = Append(q_pushed, q_pitem)
    /\ q_pres' = [kind |-> "Ok", item |-> 0]
    /\ q_ppc' = "idle"
    /\ UNCHANGED <<not_queue, q_N, q_elems, q_head_cache, q_reader, q_pitem,
                   q_cthread, q_popped>>

\* Consumer::pop is called
Q_PopCall ==
    /\ q_cpc = "idle"
    /\ q_cres' = NoResult
    /\ q_cpc' = "pop_check"
    /\ UNCHANGED <<not_queue, q_N, q_elems, q_writer, q_reader, q_pthread,
                   q_citem, q_hist>>

\* Queue::pop: head == tail_cache
Q_PopCheck ==
    /\ q_cpc = "pop_check"
    /\ q_cpc' = IF q_head = q_tail_cache THEN "pop_refresh" ELSE "pop_read"
    /\ UNCHANGED <<not_queue, q_N, q_elems, q_writer, q_reader, q_pthread,
                   q_citem, q_cres, q_hist>>

\* Queue::pop: tail_cache.set(writer.tail.load(Acquire)), test again, return
\* None when still empty
Q_PopRefresh ==
    /\ q_cpc = "pop_refresh"
    /\ q_tail_cache' = q_tail
    /\ IF q_head = q_tail
       THEN /\ q_cres' = PopNone
            /\ q_cpc' = "idle"
       ELSE /\ q_cres' = q_cres
            /\ q_cpc' = "pop_read"
    /\ UNCHANGED <<not_queue, q_N, q_elems, q_writer, q_head, q_pthread,
                   q_citem, q_hist>>

\* Queue::pop: elems[head % N].read().assume_init(), the slot is moved out of
Q_PopRead ==
    /\ q_cpc = "pop_read"
    /\ q_citem' = q_elems[q_head % q_N]
    /\ q_elems' = [q_elems EXCEPT ![q_head % q_N] = 0]
    /\ q_cpc' = "pop_store"
    /\ UNCHANGED <<not_queue, q_N, q_writer, q_reader, q_pthread, q_cres, q_hist>>

\* Queue::pop: reader.head.store(head.wrapping_add(1), Release); Some(item)
Q_PopStore ==
    /\ q_cpc = "pop_store"
    /\ q_head' = wrapping_add(q_head, 1)
    /\ q_popped' = Append(q_popped, q_citem)
    /\ q_cres' = [kind |-> "Some", item |-> q_citem]
    /\ q_cpc' = "idle"
    /\ UNCHANGED <<not_queue, q_N, q_elems, q_writer, q_tail_cache, q_pthread,
                   q_citem, q_pushed>>

NextQ ==
    \/ Q_PushCall \/ Q_PushCheck \/ Q_PushRefresh \/ Q_PushWrite \/ Q_PushStore
    \/ Q_PopCall \/ Q_PopCheck \/ Q_PopRefresh \/ Q_PopRead \/ Q_PopStore

InitQ == QueueInit /\ B_Absent /\ U_Absent /\ NoConnCalls /\ P_Absent

\* the legacy Queue with its two threads
SpecQ == InitQ /\ [][NextQ]_vars

\* either ring of the crate: a bounded channel or a legacy Queue
InitRing == InitB \/ InitQ
NextRing == NextB \/ NextQ
RingSpec == InitRing /\ [][NextRing]_vars

(* =============================== claims =============================== *)

IsPrefix(s, t) == Len(s) <= Len(t) /\ \A i \in 1..Len(s) : s[i] = t[i]

\* the values 1..n in the order they were offered
Offered(n) == [i \in 1..n |-> i]

(* C1: bounded FIFO.  With one producer (try_send/send) and one consumer
   (try_recv/recv) the values handed out by receives are at all times a
   prefix of the values accepted by sends, which are the offered values in
   order: nothing is lost, duplicated or reordered. *)
C1_BoundedFifo ==
    /\ b_sent = Offered(Len(b_sent))
    /\ IsPrefix(b_received, b_sent)

\* every offered value went through a ring smaller than their number, sent and
\* received by both the blocking and the non-blocking calls
C1_Witness ==
    /\ b_cap = 2
    /\ b_received = Offered(MaxSendBounded)
    /\ b_sop = "send" /\ b_rop = "try_recv"

(* C2: unbounded FIFO.  The values handed out by try_recv/recv are a prefix of
   the values linked by send, in order and each at most once, also when the
   nodes carrying them were recycled from the free list. *)
C2_UnboundedFifo ==
    /\ u_sent = Offered(Len(u_sent))
    /\ IsPrefix(u_received, u_sent)

\* all values delivered although only one node beside the first was created:
\* every send but the first recycled a retired node
C2_Witness ==
    /\ u_received = Offered(MaxSendUnbounded)
    /\ u_created = 2

(* C3: bounded drain-before-disconnect.  try_recv/recv yields Disconnected only
   after the Sender's drop and when every value accepted by a send has been
   received. *)
C3_BoundedDrain ==
    b_rres.kind = "Disconnected" => b_sop = "drop" /\ b_received = b_sent

\* a blocking recv reports the disconnect after draining three values
C3_Witness ==
    /\ b_rres.kind = "Disconnected" /\ b_rop = "recv" /\ b_rpc = "idle"
    /\ Len(b_received) = 3

(* C4: unbounded drain-before-disconnect.  try_recv/recv yields Disconnected
   only when the Sender has been dropped and every value whose send completed
   has been received; the re-check of tail.next misses no send. *)
C4_UnboundedDrain ==
    u_rres.kind = "Disconnected" => u_sop = "drop" /\ u_received = u_sent

\* the disconnect is reported after two values were drained
C4_Witness ==
    /\ u_rres.kind = "Disconnected" /\ u_rpc = "idle"
    /\ Len(u_received) = 2

(* C5: bounded teardown.  The Inner block is deallocated exactly once, by the
   destructor whose fetch_add saw a non-zero drop_count, never before both
   destructors incremented; the endpoint that saw 0 is gone and takes no
   further step on the block. *)
C5_BoundedTeardown ==
    /\ b_freed <= 1
    /\ ~(b_spc = "dealloc" /\ b_rpc = "dealloc")
    /\ (b_spc = "dealloc" \/ b_rpc = "dealloc" \/ b_freed = 1) =>
           /\ b_drop_count = 2
           /\ b_sop = "drop" /\ b_rop = "drop"
    /\ b_spc = "dealloc" => b_rpc = "gone" /\ b_freed = 0
    /\ b_rpc = "dealloc" => b_spc = "gone" /\ b_freed = 0
    /\ b_freed = 1 => b_spc = "gone" /\ b_rpc = "gone"
    /\ (b_spc = "gone" /\ b_rpc = "gone") => b_freed = 1

\* the Receiver was destroyed first and the Sender deallocated the block
C5_Witness ==
    /\ b_freed = 1 /\ b_drop_count = 2
    /\ Len(b_sent) > Len(b_received)
    /\ b_dropped # <<>>

(* C6: unbounded teardown.  drop_count is incremented three times (Sender::drop,
   the Sender's InnerHolder, the Receiver's InnerHolder); exactly one fetch_add
   sees 2 and that destructor alone deallocates Inner, after both endpoints
   began dropping; no fetch_add sees more than 2 (unreachable!() is not hit). *)
C6_UnboundedTeardown ==
    /\ u_drop_count <= 3
    /\ u_spc # "unreachable" /\ u_rpc # "unreachable"
    /\ u_freed <= 1
    /\ ~(u_spc = "dealloc" /\ u_rpc = "dealloc")
    /\ (u_spc = "dealloc" \/ u_rpc = "dealloc" \/ u_freed = 1) =>
           /\ u_drop_count = 3
           /\ u_sop = "drop" /\ u_rop = "drop"
    /\ u_spc = "dealloc" => u_rpc = "gone" /\ u_freed = 0
    /\ u_rpc = "dealloc" => u_spc = "gone" /\ u_freed = 0
    /\ u_freed = 1 => u_spc = "gone" /\ u_rpc = "gone"
    /\ (u_spc = "gone" /\ u_rpc = "gone") => u_freed = 1 /\ u_drop_count = 3

\* the Receiver's increment fell between the Sender's two and the Sender's
\* InnerHolder is about to deallocate
C6_Witness ==
    /\ u_spc = "dealloc" /\ u_rpc = "gone"
    /\ u_drop_count = 3

(* C7: unbounded no-leak / no-double-drop.  Once both endpoints are destroyed,
   every value accepted by send was dropped exactly once: handed out by a
   receive, or else destroyed by Inner's teardown; teardown destroys no value
   that was received, and nothing is destroyed before teardown. *)
C7_UnboundedValuesOnce ==
    /\ (u_spc = "gone" /\ u_rpc = "gone") => u_received \o u_dropped = u_sent
    /\ u_freed = 0 => u_dropped = <<>>

\* some values were received and others were destroyed by the teardown
C7_Witness ==
    /\ u_spc = "gone" /\ u_rpc = "gone"
    /\ Len(u_received) = 2 /\ Len(u_dropped) = 2

\* values accepted and not yet received (the read cursor not yet advanced)
B_Unreceived == Len(b_sent) - Len(b_received)

\* try_send decides in this step that the ring is full
B_DecidesFull == b_spc = "ts_refresh" /\ b_spc' = "up_swap"
\* try_send decides in this step that there is room
B_DecidesRoom == b_spc \in {"ts_check", "ts_refresh"} /\ b_spc' = "ts_write"

(* C8: bounded capacity bound.  On a fresh channel of rounded capacity c with
   a connected receiver and no receive, the first c try_send calls return Ok
   and the next one, try_send(c+1), returns Full(c+1); in general try_send finds
   the ring full exactly when c accepted values are unreceived. *)
C8_CapacityBound ==
    /\ [](b_received = <<>> /\ b_rop # "drop" =>
            /\ Len(b_sent) <= b_cap
            /\ b_sres.kind \in {"None", "Ok", "Full"}
            /\ b_sres.kind = "Full" =>
                   Len(b_sent) = b_cap /\ b_sres = [kind |-> "Full", item |-> b_cap + 1])
    /\ [][/\ B_DecidesFull => B_Unreceived = b_cap
          /\ B_DecidesRoom => B_Unreceived < b_cap
          /\ b_spc = "ts_refresh" /\ b_spc' # "ts_refresh" =>
                 (b_sres'.kind = "Full" <=> B_Unreceived = b_cap)]_vars

\* capacity 3 rounded to 4: four values accepted, try_send(5) returned Full(5)
C8_Witness ==
    /\ b_min_capacity = 3 /\ b_cap = 4
    /\ b_sop = "try_send" /\ b_spc = "idle"
    /\ b_sres = [kind |-> "Full", item |-> 5]
    /\ b_sent = <<1, 2, 3, 4>> /\ b_received = <<>>

(* C9: bounded disconnect wake-up.  When an endpoint is destroyed first while
   its peer is parked in a blocking recv or send, the destructor wakes the
   peer: an endpoint is never gone while the peer sleeps on its Parker with no
   notification recorded. *)
C9_BoundedDropWakesPeer ==
    /\ ~(b_spc = "gone" /\ b_rpc = "pk_sleeping" /\ b_recv_park.state = PARKED)
    /\ ~(b_rpc = "gone" /\ b_spc = "pk_sleeping" /\ b_send_park.state = PARKED)

\* the receiver is in recv and the Sender's drop has incremented drop_count
U_RecvAfterSenderDrop == u_rop = "recv" /\ u_rpc # "idle" /\ u_sop = "drop"

(* C10: unbounded disconnect wake-up.  If the Sender is dropped while the
   Receiver is inside recv (before, during or after it parks), recv returns;
   it returns Err(RecvError) once the chain is empty, never staying parked and
   never surfacing Empty. *)
C10_UnboundedDropWakesRecv ==
    /\ U_RecvAfterSenderDrop ~> (u_rpc = "idle" /\ u_rres.kind \in {"Ok", "Disconnected"})
    /\ [](u_rpc = "idle" /\ u_rop = "recv" =>
             /\ u_rres.kind \in {"Ok", "Disconnected"}
             /\ u_rres.kind = "Disconnected" => u_sop = "drop" /\ u_received = u_sent)

\* recv parked on an empty channel, consumed the notification of the Sender's
\* drop and returned the disconnect
C10_Witness ==
    /\ u_rop = "recv" /\ u_rpc = "idle" /\ u_rres.kind = "Disconnected"
    /\ u_sent = <<>>
    /\ u_park.state = EMPTY
    /\ u_spc = "gone"

(* C11: bounded blocking progress.  A producer issuing blocking sends and a
   consumer issuing blocking recvs (more of each than the capacity) both make
   progress under a fair scheduler: every send returns Ok, every value is
   received in order and the recv that took it returns; no wake-up is lost
   between try_send/try_recv and park. *)
C11_BoundedBlockingProgress ==
    /\ b_cap > 0 =>
           /\ <>(Len(b_sent) = MaxSendBounded /\ b_spc = "idle" /\ b_sres.kind = "Ok")
           /\ <>(b_received = Offered(MaxSendBounded) /\ b_rpc = "idle"
                    /\ b_rres = [kind |-> "Ok", item |-> MaxSendBounded])
    /\ [](b_spc = "idle" /\ b_sop = "send" => b_sres.kind = "Ok")
    /\ [](b_rpc = "idle" /\ b_rop = "recv" =>
             b_rres.kind = "Ok" /\ b_received = Offered(b_rres.item))

\* both threads actually slept: the producer sleeps on a full ring while the
\* consumer, woken, is about to read
C11_Witness ==
    /\ b_sop = "send" /\ b_rop = "recv"
    /\ b_spc = "pk_sleeping" /\ b_send_park.state = PARKED
    /\ b_rpc = "pk_cas" /\ b_recv_park.state = NOTIFIED
    /\ Len(b_sent) = Len(b_received) + b_cap

\* the receiver is inside recv while a linked value is still unreceived
U_RecvHasValue == u_rop = "recv" /\ u_rpc # "idle" /\ Len(u_sent) > Len(u_received)

(* C12: unbounded blocking progress.  A recv in progress returns Ok(v) once the
   producer has linked v, whatever the interleaving of try_recv/park with the
   link store and the unpark; the value is the next one in order. *)
C12_UnboundedRecvProgress ==
    /\ U_RecvHasValue ~> (u_rpc = "idle" /\ u_rop = "recv" /\ u_rres.kind = "Ok")
    /\ [](u_rpc = "idle" /\ u_rop = "recv" /\ u_rres.kind = "Ok" =>
             u_received = Offered(u_rres.item))

\* the receiver sleeps on the condition variable, the value is linked and the
\* producer is about to unpark
C12_Witness ==
    /\ u_rop = "recv" /\ u_rpc = "pk_sleeping" /\ u_park.state = PARKED
    /\ u_sent = <<1>> /\ u_received = <<>>
    /\ u_spc = "up_swap"

\* no TRUE follows a FALSE in a history of connection queries
ConnMonotonic(h) == \A i, j \in 1..Len(h) : i < j /\ ~h[i] => ~h[j]

(* C13: disconnect observation is monotonic.  drop_count never decreases; once
   receiver_connected / sender_connected has returned false on an endpoint it
   returns false on every later call, and every call made after the peer's
   destructor incremented drop_count returns false. *)
C13_ConnMonotonic ==
    /\ [](ConnMonotonic(b_sconn) /\ ConnMonotonic(b_rconn)
            /\ ConnMonotonic(u_sconn) /\ ConnMonotonic(u_rconn))
    /\ [][/\ b_drop_count' >= b_drop_count /\ u_drop_count' >= u_drop_count
          /\ b_sconn' # b_sconn /\ b_rop = "drop" => ~b_sconn'[Len(b_sconn')]
          /\ b_rconn' # b_rconn /\ b_sop = "drop" => ~b_rconn'[Len(b_rconn')]
          /\ u_sconn' # u_sconn /\ u_rop = "drop" => ~u_sconn'[Len(u_sconn')]
          /\ u_rconn' # u_rconn /\ u_sop = "drop" => ~u_rconn'[Len(u_rconn')]]_vars

\* the unbounded Receiver saw the Sender connected, then disconnected twice,
\* the first time between the Sender's two increments
C13_Witness ==
    /\ u_rconn = <<TRUE, FALSE, FALSE>>
    /\ u_drop_count = 2 /\ u_spc = "gone"

(* C14: bounded try_send after the Receiver was dropped returns
   Disconnected(item) with the very item passed in, also when the ring has
   room, and leaves the write cursor and every slot as they were: the
   disconnect check comes before the Full check. *)
C14_TrySendDisconnected ==
    /\ [](b_sres.kind = "Disconnected" =>
             /\ b_rop = "drop"
             /\ b_sres.item = b_sitem /\ Len(b_sent) < b_sitem)
    /\ [][b_spc = "ts_check" /\ b_rop = "drop" /\ b_spc' # "ts_check" =>
             /\ b_sres' = [kind |-> "Disconnected", item |-> b_sitem]
             /\ b_spc' = "ts_ret"
             /\ UNCHANGED <<b_tail, b_buffer, b_sent>>]_vars

\* try_send(3) came back Disconnected(3) from a 4-slot ring holding one value
C14_Witness ==
    /\ b_sop = "try_send" /\ b_spc = "idle"
    /\ b_sres = [kind |-> "Disconnected", item |-> 3]
    /\ b_cap = 4 /\ b_sent = <<1, 2>> /\ b_received = <<1>> /\ b_tail = 2
    /\ b_rpc = "gone"

(* C15: unbounded send after the Receiver's destructor returns
   Err(SendError(item)) with the same item; it takes no node from the free
   list, creates no node and links nothing into the chain. *)
C15_SendDisconnected ==
    /\ [](u_sres.kind = "Disconnected" =>
             /\ u_rop = "drop"
             /\ u_sres.item = u_sitem /\ Len(u_sent) < u_sitem)
    /\ [][u_spc = "us_check" /\ u_rop = "drop" /\ u_spc' # "us_check" =>
             /\ u_sres' = [kind |-> "Disconnected", item |-> u_sitem]
             /\ u_spc' = "idle"
             /\ UNCHANGED <<u_next, u_value, u_created, u_head,
                            u_next_for_reuse, u_tail_cache, u_sent>>]_vars

\* send(3) came back SendError(3) while a retired node was waiting for reuse
C15_Witness ==
    /\ u_spc = "idle" /\ u_sres = [kind |-> "Disconnected", item |-> 3]
    /\ u_sent = <<1, 2>> /\ u_received = <<1, 2>>
    /\ u_next_for_reuse # u_tail
    /\ u_rpc = "gone" /\ u_freed = 0

\* try_recv decides in this step to report Empty / Disconnected
B_DecidesEmpty == b_rres.kind # "Empty" /\ b_rres'.kind = "Empty"
B_DecidesDisconnected == b_rres.kind # "Disconnected" /\ b_rres'.kind = "Disconnected"

(* C16: bounded try_recv reports Disconnected, never Empty, once the Sender is
   dropped and everything sent has been received; while the Sender is alive an
   empty channel is reported Empty, never Disconnected. *)
C16_TryRecvEmptyOrDisconnected ==
    [][/\ B_DecidesEmpty => ~(b_sop = "drop" /\ b_received = b_sent)
       /\ B_DecidesDisconnected => b_sop = "drop" /\ b_head = b_tail
       /\ b_rpc = "tr_dc" /\ b_rpc' # "tr_dc" /\ b_sop # "drop" =>
              b_rres' = [kind |-> "Empty", item |-> 0]
       /\ b_rpc = "tr_recheck" /\ b_rpc' # "tr_recheck" /\ b_received = b_sent =>
              b_rres' = [kind |-> "Disconnected", item |-> 0]]_vars

\* channel(0), the Sender dropped at once, try_recv returned Disconnected
C16_Witness ==
    /\ b_min_capacity = 0 /\ b_sent = <<>> /\ b_spc = "gone"
    /\ b_rop = "try_recv" /\ b_rpc = "idle"
    /\ b_rres = [kind |-> "Disconnected", item |-> 0]

(* C17: a bounded try_send that returns Full(x) hands back exactly the x it was
   given; it leaves the write cursor and every slot as they were, x is not
   among the accepted values, and what is received later is what it would have
   been without the failed call. *)
C17_FullLeavesRing ==
    /\ [](b_sres.kind = "Full" =>
             /\ b_sres.item = b_sitem /\ b_sitem = Len(b_sent) + 1
             /\ b_tail = Len(b_sent) % Modulus
             /\ IsPrefix(b_received, b_sent))
    /\ [][b_buffer' # b_buffer \/ b_tail' # b_tail \/ b_sent' # b_sent =>
             b_spc \in {"ts_write", "ts_store"} /\ b_sres'.kind # "Full"]_vars

\* try_send(3) failed on a full 2-slot ring; the two values written before it
\* were received afterwards
C17_Witness ==
    /\ b_cap = 2 /\ b_sop = "try_send" /\ b_spc = "idle"
    /\ b_sres = [kind |-> "Full", item |-> 3]
    /\ b_sent = <<1, 2>> /\ b_received = <<1, 2>>

(* C18: the blocking calls never surface a transient condition.  A bounded
   send(item) that has returned gave Ok with the item accepted and published,
   or SendError(item) with the original item, unaccepted, after the Receiver's
   destructor incremented drop_count; a recv that has returned gave Ok(value)
   or RecvError.  Full and Empty stay inside the calls. *)
C18_BlockingResults ==
    /\ (b_spc = "idle" /\ b_sop = "send") =>
           /\ b_sres.kind \in {"Ok", "Disconnected"}
           /\ b_sres.kind = "Ok" =>
                  /\ Len(b_sent) >= b_sitem /\ b_sent[b_sitem] = b_sitem
                  /\ b_tail = Len(b_sent) % Modulus
           /\ b_sres.kind = "Disconnected" =>
                  /\ b_sres.item = b_sitem /\ Len(b_sent) < b_sitem
                  /\ b_rop = "drop"
    /\ (b_rpc = "idle" /\ b_rop = "recv") =>
           /\ b_rres.kind \in {"Ok", "Disconnected"}
           /\ b_rres.kind = "Ok" => b_received = Offered(b_rres.item)

\* send(3) returned Ok on a 2-slot ring after its thread consumed the wake-up
\* left by the receive of 1; the recv that took 1 has returned
C18_Witness ==
    /\ b_cap = 2 /\ b_sop = "send" /\ b_spc = "idle"
    /\ b_sres.kind = "Ok" /\ b_sitem = 3 /\ b_sent = <<1, 2, 3>>
    /\ b_send_park.state = EMPTY
    /\ b_rop = "recv" /\ b_rpc = "idle" /\ b_received = <<1>>

\* positions inside Parker::park / park_slow, and inside the locked part of unpark
ParkingPCs == ParkPCs \cup {"pk_sleeping", "pk_return", "pk_panic"}
UnparkSlowPCs == {"up_lock", "up_notify"}

(* C19: lock-freedom of the non-blocking API.  When only try_send and try_recv
   are called no thread ever parks, no Parker reaches PARKED, and no unpark
   takes the Parker's mutex or signals the condition variable. *)
C19_TryOpsLockFree ==
    /\ b_spc \notin ParkingPCs /\ b_rpc \notin ParkingPCs
    /\ b_spc \notin UnparkSlowPCs /\ b_rpc \notin UnparkSlowPCs
    /\ b_recv_park.state \in {NOTIFIED, EMPTY} /\ ~b_recv_park.locked
    /\ b_send_park.state \in {NOTIFIED, EMPTY} /\ ~b_send_park.locked

\* try_send found the ring full and try_recv then took a value: both Parkers
\* were unparked on the fast path
C19_Witness ==
    /\ b_sop = "try_send" /\ b_spc = "idle" /\ b_sres.kind = "Full"
    /\ b_rop = "try_recv" /\ b_rpc = "idle" /\ b_rres.kind = "Ok"
    /\ b_recv_park.state = NOTIFIED /\ b_send_park.state = NOTIFIED

(* C20: capacity rounding.  channel(min_capacity) creates a buffer whose length
   is the smallest power of two that is >= min_capacity; min_capacity = 0
   gives 1; the capacity is never below the request and never zero. *)
C20_CapacityRounding ==
    b_spc \notin {"panic", "absent"} =>
        /\ b_cap >= 1 /\ b_cap >= b_min_capacity
        /\ is_power_of_two(b_cap)
        /\ \A p \in 1..(Modulus - 1) :
               is_power_of_two(p) /\ p >= b_min_capacity => b_cap <= p
        /\ b_min_capacity = 0 => b_cap = 1
        /\ DOMAIN b_buffer = 0..(b_cap - 1)

\* channel(3) has four slots and all four have been written
C20_Witness ==
    /\ b_min_capacity = 3 /\ b_cap = 4
    /\ b_buffer = [i \in 0..3 |-> i + 1]

(* C21: Parker fast path.  A park() called while a notification is pending (an
   unpark swapped the state since park last returned) returns at once, without
   taking the mutex or waiting on the condition variable, and consumes the
   notification: the state is left EMPTY. *)
C21_ParkConsumesNotification ==
    /\ [](p_ppc \in {"idle", "pk_fetch_add"} /\ p_pending => p_pk.state = NOTIFIED)
    /\ [][p_ppc = "pk_fetch_add" /\ p_pending /\ p_ppc' # p_ppc =>
             /\ p_ppc' = "idle"
             /\ p_pk' = [state |-> EMPTY, locked |-> p_pk.locked]
             /\ ~p_pending']_vars

\* unpark, then park: the call returned and the notification is gone
C21_Witness ==
    /\ p_parks = 1 /\ p_unparks = 1
    /\ p_ppc = "idle" /\ p_upc = "idle"
    /\ p_pk = [state |-> EMPTY, locked |-> FALSE] /\ ~p_pending

\* park has been called, and the unpark that will release it has swapped the
\* state or is about to
P_ParkNotified ==
    p_ppc \in ParkingPCs /\ (p_pending \/ p_upc = "up_swap" \/ p_upc2 = "up_swap")

(* C22: no lost wake-up.  With one thread in park() and another calling
   unpark() concurrently, park() returns in every interleaving: once an unpark
   has swapped the state, the park in progress eventually returns, also when
   the swap and notify_one fall between the parker's EMPTY-to-PARKED increment
   and its wait on the condition variable. *)
C22_NoLostWakeup == P_ParkNotified ~> (p_ppc = "idle")

\* the whole unpark (swap that saw PARKED, lock, notify_one) ran after the
\* parker's increment and before the parker took the mutex to wait
C22_Witness ==
    /\ p_ppc = "pk_lock" /\ p_parks = 1
    /\ p_upc = "idle" /\ p_unparks = 1
    /\ p_pk.state = NOTIFIED /\ p_pending

\* pushed values that have not been popped
Q_Unpopped == Len(q_pushed) - Len(q_popped)

(* C23: legacy Queue<T, N>.  push(x) returns Err(x), leaving the queue as it
   was, exactly when N pushed values are unpopped at the moment it loads the
   read cursor, and otherwise stores x and returns Ok(()); pop returns None
   exactly when no pushed value is unpopped at the moment it loads the write
   cursor, and otherwise returns the oldest unpopped value; so the popped
   values are the pushed values in push order, never more than N are
   unpopped.  It holds for every interleaving of one pushing and one popping
   thread, the single-threaded ones included. *)
C23_LegacyQueue ==
    /\ [](q_ppc # "absent" =>
            /\ IsPrefix(q_popped, q_pushed)
            /\ Q_Unpopped \in 0..q_N
            /\ q_ppc \in {"push_write", "push_store"} => Q_Unpopped < q_N
            /\ q_cpc \in {"pop_read", "pop_store"} => Q_Unpopped > 0)
    /\ [][/\ q_ppc = "push_refresh" /\ q_ppc' = "idle" =>
                /\ Q_Unpopped = q_N
                /\ q_pres' = [kind |-> "Err", item |-> q_pitem]
                /\ UNCHANGED <<q_elems, q_tail, q_pushed>>
          /\ q_ppc = "push_refresh" /\ Q_Unpopped = q_N => q_ppc' # "push_write"
          /\ q_ppc = "push_store" /\ q_ppc' = "idle" =>
                /\ q_pres' = [kind |-> "Ok", item |-> 0]
                /\ q_pushed' = Append(q_pushed, q_pitem)
          /\ q_cpc = "pop_refresh" /\ q_cpc' = "idle" =>
                /\ Q_Unpopped = 0
                /\ q_cres' = PopNone
                /\ UNCHANGED <<q_head, q_popped>>
          /\ q_cpc = "pop_refresh" /\ Q_Unpopped = 0 => q_cpc' # "pop_read"
          /\ q_cpc = "pop_store" /\ q_cpc' = "idle" =>
                /\ q_cres' = [kind |-> "Some", item |-> q_pushed[Len(q_popped) + 1]]
                /\ q_popped' = Append(q_popped, q_pushed[Len(q_popped) + 1])]_vars

\* a Queue<_, 4>: the first pop found nothing, four pushes were accepted and the
\* fifth came back
C23_Witness ==
    /\ q_N = 4 /\ q_ppc = "idle" /\ q_cpc = "idle"
    /\ q_cres = PopNone /\ q_popped = <<>>
    /\ q_pushed = <<1, 2, 3, 4>>
    /\ q_pres = [kind |-> "Err", item |-> 5]

(* C24: construction overflow.  channel(min_capacity) panics ("capacity
   overflow") exactly when no power of two >= min_capacity fits the index type,
   that is when min_capacity > 2^(w-1) for the w-bit index; in that case no
   channel exists: no buffer, no endpoint, and nothing ever happens on it. *)
C24_CapacityOverflow ==
    b_spc # "absent" =>
        /\ b_spc = "panic" <=> b_min_capacity > 2 ^ (IndexBits - 1)
        /\ b_spc = "panic" <=>
              ~ \E p \in 1..(Modulus - 1) :
                    is_power_of_two(p) /\ p >= b_min_capacity
        /\ b_spc = "panic" =>
              /\ b_rpc = "panic" /\ b_cap = 0 /\ DOMAIN b_buffer = {}
              /\ b_sop = "none" /\ b_rop = "none" /\ b_drop_count = 0
              /\ b_sent = <<>> /\ b_received = <<>> /\ b_dropped = <<>>

\* channel(2^(w-1) + 1) has panicked
C24_Witness ==
    /\ b_spc = "panic" /\ b_rpc = "panic"
    /\ b_min_capacity = 2 ^ (IndexBits - 1) + 1

\* the bounded channel exists: it was created and its block is not freed
B_Alive == b_spc \notin {"absent", "panic"} /\ b_freed = 0

\* occupancy as the cursors give it: (tail - head) mod 2^w
B_Occupancy == (b_tail - b_head + Modulus) % Modulus

\* the slot of the i-th value after the read cursor
B_SlotAfterHead(i) == BitAnd(wrapping_add(b_head, i), b_cap - 1)

(* C25: bounded occupancy invariant.  While the channel exists, the published
   cursors satisfy 0 <= (tail - head) mod 2^w <= capacity; that difference is
   the number of values sent and not yet received, the slots at head..tail
   (masked) hold exactly those values, oldest first, and no other slot holds
   one of them. *)
C25_Occupancy ==
    B_Alive =>
        /\ B_Occupancy \in 0..b_cap
        /\ B_Occupancy = B_Unreceived
        /\ \A i \in 0..(B_Occupancy - 1) :
               b_buffer[B_SlotAfterHead(i)] = b_sent[Len(b_received) + 1 + i]
        /\ \A slot \in DOMAIN b_buffer :
               (\A i \in 0..(B_Occupancy - 1) : slot # B_SlotAfterHead(i)) =>
                   \A j \in (Len(b_received) + 1)..Len(b_sent) :
                       b_buffer[slot] # b_sent[j]

\* a ring of four slots holding the values 3..6 after two receives; it is
\* full, the seventh value was refused
C25_Witness ==
    /\ B_Alive /\ b_cap = 4
    /\ b_head = 2 /\ b_tail = 6
    /\ b_received = <<1, 2>> /\ b_sent = <<1, 2, 3, 4, 5, 6>>
    /\ b_sres.kind = "Full"

\* distance from cursor a forward to cursor b, modulo 2^w
CursorDistance(a, b) == (b - a + Modulus) % Modulus

\* the producer is between its room test and the publication of tail + 1
B_Writing == b_spc \in {"ts_write", "ts_store"}
\* the consumer is between its data test and the publication of head + 1
B_Reading == b_rpc \in {"tr_read", "tr_store"}

(* C26: bounded slot ownership.  The producer writes slot tail & (cap-1) only
   when the consumer has published a head past the value previously stored
   there, and publishes tail+1 only after the write; the consumer reads slot
   head & (cap-1) only after a tail beyond head was published; the sender's
   head_cache is never ahead of head, the receiver's tail_cache never ahead of
   tail; no slot is written while it is read, and no slot holding an
   unreceived value is overwritten. *)
C26_SlotOwnership ==
    /\ [](B_Alive =>
            /\ CursorDistance(b_head_cache, b_head) <= CursorDistance(b_head_cache, b_tail)
            /\ CursorDistance(b_head_cache, b_tail) <= b_cap
            /\ CursorDistance(b_head, b_tail_cache) <= CursorDistance(b_head, b_tail)
            /\ B_Writing => B_Occupancy < b_cap
            /\ B_Reading => B_Occupancy > 0
            /\ b_rpc = "tr_read" => b_buffer[RecvSlot] = b_sent[Len(b_received) + 1]
            /\ B_Writing /\ B_Reading => SendSlot # RecvSlot)
    /\ [][/\ b_tail' # b_tail =>
                /\ b_spc = "ts_store" /\ b_buffer[SendSlot] = b_sitem
                /\ b_tail' = wrapping_add(b_tail, 1)
          /\ b_buffer' # b_buffer =>
                /\ b_spc = "ts_write"
                /\ \A slot \in DOMAIN b_buffer :
                       b_buffer'[slot] # b_buffer[slot] =>
                           /\ slot = SendSlot
                           /\ \A k \in 0..(B_Occupancy - 1) : slot # B_SlotAfterHead(k)]_vars

\* the producer is about to write one slot while the consumer is about to read
\* another, each working from a cursor the other has not seen yet
C26_Witness ==
    /\ b_spc = "ts_write" /\ b_rpc = "tr_read"
    /\ b_cap = 4 /\ SendSlot # RecvSlot
    /\ b_head_cache # b_head /\ b_tail_cache # b_tail
    /\ Len(b_received) >= 2

\* the legacy Queue exists
Q_Alive == q_ppc # "absent"

(* C27: cursor wrap-around.  The capacity is a power of two no larger than
   2^(w-1); the cursors are the numbers of values sent and received modulo
   2^w, also after these numbers have passed 2^w; the full test (tail ==
   head + cap, wrapping) and the empty test (head == tail) answer as the
   unbounded counts would, a cached cursor that shows room or data is right,
   the slot index cursor & (cap-1) (cursor % N in the legacy Queue) is the
   count modulo the capacity; FIFO order and the capacity bound hold
   throughout. *)
C27_CursorWrap ==
    /\ B_Alive =>
          /\ is_power_of_two(b_cap) /\ b_cap <= 2 ^ (IndexBits - 1)
          /\ b_tail = Len(b_sent) % Modulus
          /\ b_head = Len(b_received) % Modulus
          /\ SendFull(b_head) <=> B_Unreceived = b_cap
          /\ b_head = b_tail <=> B_Unreceived = 0
          /\ ~SendFull(b_head_cache) => B_Unreceived < b_cap
          /\ b_head # b_tail_cache => B_Unreceived > 0
          /\ SendSlot = Len(b_sent) % b_cap
          /\ RecvSlot = Len(b_received) % b_cap
          /\ B_Unreceived \in 0..b_cap
          /\ b_sent = Offered(Len(b_sent)) /\ IsPrefix(b_received, b_sent)
    /\ Q_Alive =>
          /\ is_power_of_two(q_N) /\ q_N <= 2 ^ (IndexBits - 1)
          /\ q_tail = Len(q_pushed) % Modulus
          /\ q_head = Len(q_popped) % Modulus
          /\ PushFull(q_head) <=> Q_Unpopped = q_N
          /\ q_head = q_tail <=> Q_Unpopped = 0
          /\ ~PushFull(q_head_cache) => Q_Unpopped < q_N
          /\ q_head # q_tail_cache => Q_Unpopped > 0
          /\ Q_Unpopped \in 0..q_N
          /\ q_pushed = Offered(Len(q_pushed)) /\ IsPrefix(q_popped, q_pushed)

\* the write cursor has overflowed to 0 while the read cursor is at 4: the
\* four-slot ring is full and the ninth value was refused
C27_Witness ==
    /\ B_Alive /\ b_cap = 4
    /\ Len(b_sent) = Modulus /\ b_tail = 0 /\ b_head = 4
    /\ b_sres = [kind |-> "Full", item |-> Modulus + 1]

(* C28: single-writer frame.  No step of the producer (try_send, send) changes
   the read cursor or the receiver's tail_cache; no step of the consumer
   (try_recv, recv) changes the write cursor or the sender's head_cache; the
   read cursor changes only in the step that completes a receive with Ok, so a
   try_recv that reports Empty or Disconnected leaves it as it was. *)
C28_SingleWriterFrame ==
    [][/\ B_SenderStep => UNCHANGED <<b_head, b_tail_cache>>
       /\ B_ReceiverStep => UNCHANGED <<b_tail, b_head_cache>>
       /\ b_head' # b_head => b_rpc = "tr_store" /\ b_rres'.kind = "Ok"
       /\ b_rres'.kind \in {"Empty", "Disconnected"} => b_head' = b_head
       /\ b_rop = "try_recv" /\ b_rres.kind # "None" /\ b_rres' # b_rres =>
              B_ReceiverCall]_vars

\* after two receives a try_recv found nothing and a try_send then stored a
\* third value: the read cursor is still 2, the tail_cache still 2
C28_Witness ==
    /\ b_rop = "try_recv" /\ b_rpc = "idle" /\ b_rres.kind = "Empty"
    /\ b_sop = "try_send" /\ b_spc = "idle" /\ b_sres.kind = "Ok"
    /\ b_head = 2 /\ b_tail_cache = 2 /\ b_tail = 3

(* C29: cached-cursor refresh.  try_send loads the shared read cursor only
   when its tail equals head_cache + capacity, try_recv loads the shared write
   cursor only when its head equals tail_cache; a cache is written only by
   such a load; when the cached value shows room (data), the call goes
   straight to the slot and completes without a load. *)
C29_CachedCursorRefresh ==
    /\ [](B_Alive =>
            /\ b_spc = "ts_refresh" => SendFull(b_head_cache)
            /\ b_rpc \in {"tr_refresh", "tr_dc", "tr_recheck"} => b_head = b_tail_cache)
    /\ [][/\ b_head_cache' # b_head_cache =>
                /\ b_spc = "ts_refresh" /\ SendFull(b_head_cache)
                /\ b_head_cache' = b_head
          /\ b_tail_cache' # b_tail_cache =>
                /\ b_rpc \in {"tr_refresh", "tr_recheck"} /\ b_head = b_tail_cache
                /\ b_tail_cache' = b_tail
          /\ b_spc' = "ts_refresh" /\ b_spc # "ts_refresh" => b_spc = "ts_check"
          /\ b_spc = "ts_check" /\ b_spc' # "ts_check" /\ ~SendFull(b_head_cache) =>
                b_spc' \in {"ts_write", "ts_ret"}
          /\ b_rpc' = "tr_refresh" /\ b_rpc # "tr_refresh" =>
                b_rpc \in {"idle", "pk_cas", "pk_fetch_add"}
          /\ b_rpc' = "tr_read" /\ b_rpc # "tr_read" /\ b_head # b_tail_cache =>
                UNCHANGED b_tail_cache
          /\ b_rpc' = "tr_recheck" /\ b_rpc # "tr_recheck" => b_rpc = "tr_dc"]_vars

\* three values were sent without the producer ever loading the read cursor,
\* although two receives have moved it; the fourth is about to be written
C29_Witness ==
    /\ b_cap = 4 /\ b_spc = "ts_write"
    /\ b_tail = 3 /\ Len(b_sent) = 3
    /\ b_head = 2 /\ b_head_cache = 0

\* the values sent and never received, oldest first
B_Pending == SubSeq(b_sent, Len(b_received) + 1, Len(b_sent))

(* C30: bounded teardown of values.  When the shared block is destroyed,
   Inner::drop destroys exactly the values at the cursor positions head..tail,
   the ones sent and never received, each once and none that a receive has
   returned; nothing is destroyed before; so every accepted value is either
   returned by a receive or destroyed at teardown, exactly once. *)
C30_BoundedValueTeardown ==
    /\ b_spc # "absent" /\ b_freed = 0 => b_dropped = <<>>
    /\ b_freed = 1 =>
          /\ b_dropped = B_Pending
          /\ b_received \o b_dropped = b_sent
          /\ \A v \in 1..Len(b_sent) :
                 Cardinality({k \in 1..Len(b_received) : b_received[k] = v})
                 + Cardinality({k \in 1..Len(b_dropped) : b_dropped[k] = v}) = 1

\* channel(1), one value sent and never received, both endpoints destroyed
C30_Witness ==
    /\ b_min_capacity = 1 /\ b_freed = 1
    /\ b_sent = <<1>> /\ b_received = <<>> /\ b_dropped = <<1>>

\* the parking thread is inside park_slow
P_InParkSlow == p_ppc \in {"pk_lock", "pk_cas", "pk_wait", "pk_sleeping"}

(* C37: Parker state invariant.  With park() called by one thread at a time
   and unpark() called any number of times by other threads, the state is
   always NOTIFIED, EMPTY or PARKED; park's fetch_add never finds PARKED, so
   park never panics; the state is PARKED only while the owner is inside
   park. *)
C37_ParkerStates ==
    p_ppc # "absent" =>
        /\ p_pk.state \in {NOTIFIED, EMPTY, PARKED}
        /\ p_ppc # "pk_panic"
        /\ p_ppc = "pk_fetch_add" => p_pk.state # PARKED
        /\ p_pk.state = PARKED => P_InParkSlow

\* the third park is asleep in state PARKED after both other threads unparked
C37_Witness ==
    /\ p_pk.state = PARKED /\ p_ppc = "pk_sleeping"
    /\ p_parks = MaxParkCalls /\ p_unparks >= 2
    /\ p_upc = "idle" /\ p_upc2 = "idle"

(* C38: no spurious return.  park() returns only when an unpark has swapped
   the state since the previous park returned (or since construction); in
   park_slow a wake-up that does not find NOTIFIED goes back to wait; the
   returning step resets the state from NOTIFIED to EMPTY. *)
C38_NoSpuriousReturn ==
    [][/\ p_ppc \in ParkingPCs /\ p_ppc' = "idle" =>
             /\ p_swaps >= 1
             /\ p_pk.state = NOTIFIED /\ p_pk'.state = EMPTY
       /\ p_ppc = "pk_cas" /\ p_pk.state # NOTIFIED /\ p_ppc' # p_ppc =>
             p_ppc' = "pk_wait" /\ p_pk'.state = p_pk.state
       /\ p_ppc = "pk_wait" /\ p_ppc' # p_ppc => p_ppc' = "pk_sleeping"]_vars

\* the park in progress came back from the condition variable, found no
\* notification and sleeps again
C38_Witness ==
    /\ p_woken /\ p_ppc = "pk_sleeping"
    /\ p_swaps = 0 /\ p_pk.state = PARKED

(* C39: notifications coalesce.  However many unparks have swapped the state
   since park last returned, outside park the state shows exactly one pending
   notification (NOTIFIED) and none (EMPTY) when there was no unpark; the
   next park returns at once and consumes them all; the park after it takes
   the slow path and returns only after a further unpark. *)
C39_Coalesce ==
    /\ [](p_ppc \in {"idle", "pk_fetch_add"} =>
            /\ p_swaps >= 1 <=> p_pk.state = NOTIFIED
            /\ p_swaps = 0 <=> p_pk.state = EMPTY)
    /\ [][/\ p_ppc = "pk_fetch_add" /\ p_swaps >= 1 /\ p_ppc' # p_ppc =>
                p_ppc' = "idle" /\ p_swaps' = 0 /\ p_pk'.state = EMPTY
          /\ p_ppc = "pk_fetch_add" /\ p_swaps = 0 /\ p_ppc' # p_ppc =>
                p_ppc' = "pk_lock"
          /\ P_InParkSlow /\ p_ppc' = "idle" => p_swaps >= 1]_vars

\* two unparks, then a park that returned at once and consumed both, then a
\* park that is asleep
C39_Witness ==
    /\ p_last = [swaps |-> 2, slow |-> FALSE]
    /\ p_parks = 2 /\ p_unparks = 2
    /\ p_ppc = "pk_sleeping" /\ p_swaps = 0 /\ ~p_woken

\* the unbounded channel exists: it was created and its block is not freed
U_Alive == u_spc # "absent" /\ u_freed = 0

\* the nodes reached from n by following next pointers, n first
RECURSIVE U_Path(_, _)
U_Path(n, fuel) ==
    IF n = 0 \/ fuel = 0 THEN <<>>
    ELSE <<n>> \o U_Path(u_next[n], fuel - 1)

U_PathFrom(n) == U_Path(n, Cardinality(Nodes) + 1)
U_NodesFrom(n) == {U_PathFrom(n)[k] : k \in 1..Len(U_PathFrom(n))}

\* the tail node and every node after it: what the consumer may look at
U_FromTail == U_NodesFrom(u_tail)
\* the retired nodes: reached from next_for_reuse, strictly before the tail
U_Retired == U_NodesFrom(u_next_for_reuse) \ U_FromTail

\* the producer holds a node for the send in progress
U_HoldsNode == u_spc \in {"us_write", "us_link"}

(* C31: node-reuse safety.  The node next_node hands to a send is freshly
   allocated or was, when taken, strictly before the consumer's tail in the
   chain; the producer resets the next pointer of, and writes a value into,
   only such a node, never the tail node or a node after it; the node the
   consumer reads is never the one the producer holds. *)
C31_NodeReuse ==
    /\ [](U_Alive =>
            /\ U_HoldsNode =>
                  /\ u_snode # 0 /\ u_snode \notin U_FromTail
                  /\ u_next[u_snode] = 0
            /\ u_rpc \in {"ur_read", "ur_store"} =>
                  /\ u_rnew \in U_FromTail /\ u_rnew # u_tail
                  /\ U_HoldsNode => u_rnew # u_snode)
    /\ [][/\ u_snode' # u_snode /\ u_snode' # 0 =>
                \/ u_snode' \in U_Retired /\ UNCHANGED u_created
                \/ u_snode' = u_created + 1 /\ u_created' = u_created + 1
          /\ \A n \in Nodes :
                /\ u_next[n] # 0 /\ u_next'[n] = 0 =>
                      n \in U_Retired /\ n = u_snode'
                /\ u_value'[n] # u_value[n] =>
                      n \notin U_FromTail /\ n = u_snode /\ u_spc = "us_write"]_vars

\* the producer is about to write into the reused first node while the
\* consumer is reading the value of a later node
C31_Witness ==
    /\ U_Alive /\ u_spc = "us_write" /\ u_snode = 1 /\ Len(u_sent) >= 2
    /\ u_rpc = "ur_read"

(* C32: allocation policy.  A send allocates a node only in next_node's slow
   path, after tail_cache was refreshed from the shared tail, and only when
   next_for_reuse equals that tail, that is when no retired node exists before
   the tail; whenever a retired node exists at the refresh the send takes the
   oldest one, next_for_reuse, and allocates nothing. *)
C32_AllocationPolicy ==
    /\ [](U_Alive /\ ~U_HoldsNode => (U_Retired = {} <=> u_next_for_reuse = u_tail))
    /\ [][/\ u_created' # u_created =>
                /\ u_spc = "us_refresh" /\ u_created' = u_created + 1
                /\ u_tail_cache' = u_tail /\ u_next_for_reuse = u_tail
                /\ U_Retired = {}
          /\ u_spc = "us_refresh" /\ u_spc' # u_spc /\ U_Retired # {} =>
                /\ UNCHANGED u_created
                /\ u_snode' = u_next_for_reuse
                /\ u_tail_cache' = u_tail
          /\ u_spc = "us_check" /\ u_spc' = "us_write" =>
                /\ UNCHANGED <<u_created, u_tail_cache>>
                /\ u_snode' = u_next_for_reuse /\ u_snode' \in U_Retired]_vars

\* the second send found the cached tail stale, refreshed it and took the
\* retired first node: still two nodes
C32_Witness ==
    /\ U_Alive /\ u_spc = "us_write" /\ u_sitem = 2
    /\ u_snode = 1 /\ u_created = 2
    /\ u_tail_cache = 2 /\ u_tail = 2

\* the values sent and never received, oldest first
U_Pending == SubSeq(u_sent, Len(u_received) + 1, Len(u_sent))

\* position of node n in the sequence of released nodes (0: not released)
U_ReleasedAt(n) == {k \in 1..Len(u_released) : u_released[k] = n}

(* C33: node lifetime.  No node is released before both endpoints are gone and
   the block is destroyed; the destruction releases every node ever
   allocated exactly once and nothing else: first the nodes from
   next_for_reuse through tail, whose values are not touched, then each node
   after tail up to head, whose value is destroyed. *)
C33_NodeLifetime ==
    /\ u_released # <<>> => u_freed = 1 /\ u_spc = "gone" /\ u_rpc = "gone"
    /\ u_freed = 1 =>
          /\ \A n \in 1..u_created : Cardinality(U_ReleasedAt(n)) = 1
          /\ Len(u_released) = u_created
          /\ u_released = U_PathFrom(u_next_for_reuse)
          /\ u_released[Len(u_released)] = u_head
          /\ \E k \in 1..Len(u_released) :
                /\ u_released[k] = u_tail
                /\ Len(u_dropped) = Len(u_released) - k
                /\ \A j \in 1..Len(u_dropped) :
                       u_dropped[j] = u_value[u_released[k + j]]
          /\ u_dropped = U_Pending

\* destroyed with a retired node, the tail node and a pending node
C33_Witness ==
    /\ u_freed = 1 /\ u_created = 3
    /\ u_released = <<1, 2, 3>> /\ u_tail = 2
    /\ u_dropped = <<2>>

\* the whole chain, from the oldest retired node on
U_Chain == U_PathFrom(u_next_for_reuse)

\* position of node n in the chain (0: not in it)
U_ChainAt(n) == {k \in 1..Len(U_Chain) : U_Chain[k] = n}

(* C34: chain invariant.  Whenever the producer holds no detached node (in
   particular whenever no send is in progress), following next pointers from
   next_for_reuse reaches tail_cache, then the shared tail, then head, in that
   order, possibly coinciding; head ends the chain and is the only node whose
   next is null; every allocated node is in the chain exactly once; so a
   reused or walked node always has a non-null next. *)
C34_ChainInvariant ==
    /\ [](U_Alive /\ ~U_HoldsNode =>
            /\ \A n \in 1..u_created : Cardinality(U_ChainAt(n)) = 1
            /\ Len(U_Chain) = u_created
            /\ U_Chain[1] = u_next_for_reuse
            /\ U_Chain[Len(U_Chain)] = u_head
            /\ \A n \in 1..u_created : u_next[n] = 0 <=> n = u_head
            /\ \E i, j \in 1..Len(U_Chain) :
                  /\ i <= j
                  /\ U_Chain[i] = u_tail_cache /\ U_Chain[j] = u_tail)
    /\ [][u_next_for_reuse' # u_next_for_reuse =>
             /\ u_next_for_reuse' = u_next[u_next_for_reuse]
             /\ u_next_for_reuse' # 0]_vars

\* no send in progress and the four cursors on four different nodes
C34_Witness ==
    /\ U_Alive /\ u_spc = "idle"
    /\ U_Chain = <<2, 3, 4, 1>>
    /\ u_next_for_reuse = 2 /\ u_tail_cache = 3 /\ u_tail = 4 /\ u_head = 1

\* the Sender's destructor is inside its unpark_receiver call
U_DropUnparks == u_sop = "drop" /\ u_spc \in UnparkPCs

(* C35: wake-before-free.  While Sender::drop is inside unpark_receiver the
   shared block, with its Parker, is still allocated and nobody is about to
   free it, whatever the Receiver's destructor has done: freeing needs
   drop_count to reach 3, and the Sender's second increment comes after the
   unpark. *)
C35_WakeBeforeFree ==
    /\ U_DropUnparks =>
          /\ u_freed = 0 /\ u_rpc # "dealloc"
          /\ u_drop_count \in {1, 2}
    /\ u_spc \in UnparkPCs => u_freed = 0
    /\ (u_freed = 1 \/ u_spc = "dealloc" \/ u_rpc = "dealloc") =>
          /\ u_drop_count = 3
          /\ u_sop = "drop" /\ u_spc \in {"dealloc", "gone"}

\* the Receiver is already gone while the Sender's destructor is still about
\* to notify: the block is alive, drop_count is 2
C35_Witness ==
    /\ U_DropUnparks /\ u_spc = "up_notify"
    /\ u_rpc = "gone" /\ u_drop_count = 2 /\ u_freed = 0

\* the send in progress has passed its drop_count test
U_SendAccepted == u_sop = "send" /\ u_spc \in {"us_refresh", "us_write", "us_link"}

(* C36: unbounded send has no capacity limit and never blocks.  A send that
   finds drop_count 0 goes on, however many values are unreceived, links
   exactly one node carrying the item behind the previous head and returns
   Ok(()); the producer never parks; the only error is the one returned when
   drop_count is not 0, and then nothing is linked. *)
C36_SendNeverBlocks ==
    /\ [](u_spc \notin ParkingPCs /\ u_sres.kind \in {"None", "Ok", "Disconnected"})
    /\ [][/\ u_spc = "us_check" /\ u_spc' # u_spc =>
                IF u_drop_count = 0
                THEN u_spc' \in {"us_refresh", "us_write"} /\ u_sres'.kind = "None"
                ELSE /\ u_sres' = [kind |-> "Disconnected", item |-> u_sitem]
                     /\ UNCHANGED <<u_next, u_value, u_head, u_sent, u_created>>
          /\ u_sres'.kind = "Disconnected" /\ u_sres.kind # "Disconnected" =>
                u_spc = "us_check" /\ u_drop_count # 0
          /\ u_spc = "us_link" /\ u_spc' # u_spc =>
                /\ u_value[u_snode] = u_sitem
                /\ u_next' = [u_next EXCEPT ![u_head] = u_snode]
                /\ u_head' = u_snode
                /\ u_sent' = Append(u_sent, u_sitem)
                /\ u_sres' = [kind |-> "Ok", item |-> 0]]_vars
    /\ (U_SendAccepted ~> (u_sres.kind = "Ok"))

\* every value the producer may send was accepted while nothing was received
C36_Witness ==
    /\ Len(u_sent) = MaxSendUnbounded /\ u_received = <<>>
    /\ u_sres.kind = "Ok" /\ u_spc = "idle" /\ u_drop_count = 0
    /\ u_created = MaxSendUnbounded + 1

\* a send of the alternating run takes its node: from the fast path or after
\* the refresh of tail_cache
U_TakesNode == u_spc \in {"us_check", "us_refresh"} /\ u_spc' = "us_write"

(* C40: steady-state allocation bound.  In a run of one thread where sends
   and successful try_recv calls strictly alternate, starting with a send,
   only the first send allocates a node; every later send takes the one
   retired node again, so the channel never holds more than 2 nodes: the
   initial node and the one the first send allocated. *)
C40_SteadyState ==
    /\ [](/\ u_created <= 2 /\ u_released = <<>>
          /\ Len(u_sent) - Len(u_received) \in {0, 1}
          /\ u_rres.kind \in {"None", "Ok"} /\ u_sres.kind \in {"None", "Ok"}
          /\ Len(u_sent) >= 1 => u_created = 2)
    /\ [][/\ u_created' # u_created =>
                u_sop = "send" /\ u_sent = <<>> /\ u_created' = 2
          /\ U_TakesNode /\ u_sent # <<>> =>
                /\ u_created' = u_created
                /\ U_Retired = {u_snode'}
                /\ u_snode' = u_next_for_reuse]_vars

\* the last round of the run is over: as many values received as sent, and
\* still the two nodes of the first round
C40_Witness ==
    /\ Len(u_sent) = MaxRounds /\ u_received = u_sent
    /\ u_spc = "idle" /\ u_rpc = "idle"
    /\ u_created = 2 /\ U_Retired # {}

=============================================================================
